---- MODULE Spec2Model ----
(***************************************************************************)
(* A state-machine model of the ntfy MCP server's delivery-state engine:   *)
(* the incremental poll cursor (pollManager.ts / pollState.ts), the        *)
(* streaming subscriber (services/ntfy/subscriber.ts) and the subscription *)
(* registry (subscriptionTool/subscriptionManager.ts).                     *)
(***************************************************************************)
EXTENDS Integers, Sequences, FiniteSets, TLC

(***************************************************************************)
(* Bounds of the model.                                                    *)
(***************************************************************************)
MaxTicks == 3
MaxPublished == 2
StartNow == 10000

(***************************************************************************)
(* Program constants.                                                      *)
(***************************************************************************)
PollStateTtl == 3600000
DefaultMessageLimit == 100
MsPerSecond == 1000

Topics == {"alerts"}
Pollers == {"p1", "p2"}
NoId == 0
NoObj == 0
\* One object may be stored and each call in flight may hold one more.
ObjIds == 1..(1 + Cardinality(Pollers))

VARIABLES
  now,        \* Date.now(), in milliseconds
  ticks,      \* number of clock advances so far
  upstream,   \* the ntfy server's message cache, per topic, in arrival order
  nextMsgId,  \* the id the server gives the next published message
  states,     \* InMemoryPollStateManager.states: topic -> object (NoObj: absent)
  objs,       \* the PollState objects (the map and the calls hold references)
  calls,      \* the processPollTopic calls, one per caller
  audit,      \* per topic: what was published since the last finished poll, and
              \* what the last finished poll returned
  cleanupInterval,  \* InMemoryPollStateManager.cleanupInterval: the interval
              \* of the store's sweep is armed
  conn,       \* per subscription id: the NtfySubscriber, its requests and timers,
              \* and the registry's record of it
  sweepIn,    \* time left until the registry's cleanup interval fires
  send,       \* the publish tool: its rate limiters and its last request
  dec         \* one run of processJsonStream: the wire, the buffer, the output

pollVars == <<now, ticks, upstream, nextMsgId, states, objs, calls, audit,
              cleanupInterval>>
subVars == <<conn, sweepIn>>
auxVars == <<send, dec>>
vars == <<now, ticks, upstream, nextMsgId, states, objs, calls, audit,
          cleanupInterval, conn, sweepIn, send, dec>>

(***************************************************************************)
(* Pure helpers.                                                           *)
(***************************************************************************)
Max(a, b) == IF a >= b THEN a ELSE b

Take(s, n) == IF Len(s) <= n THEN s ELSE SubSeq(s, 1, n)

Ids(s) == [i \in 1..Len(s) |-> s[i].id]

\* The position of message id `id` in sequence s, 0 when absent.
IndexOfId(s, id) ==
  IF \E i \in 1..Len(s) : s[i].id = id
  THEN CHOOSE i \in 1..Len(s) : s[i].id = id
  ELSE 0

\* new Date(ms).toISOString(): "YYYY-MM-DDTHH:mm:ss.sssZ", a whole-second part
\* and a millisecond part.
ToISOString(ms) == [sec |-> ms \div MsPerSecond, msec |-> ms % MsPerSecond]

(***************************************************************************)
(* The rate limiters a handler checks before it sends its request: the     *)
(* publish tool checks the global and the per-topic limiter; the poll tool *)
(* and the subscriber check none.                                          *)
(***************************************************************************)
RateLimitersOf(handler) ==
  CASE handler = "processNtfyMessage" -> {"global", "topic"}
    [] handler = "processPollTopic" -> {}
    [] handler = "startSubscription" -> {}

(***************************************************************************)
(* Streaming subscriber: constants and data (services/ntfy/constants.ts,   *)
(* services/ntfy/subscriber.ts) and the registry's configuration.          *)
(***************************************************************************)
DEFAULT_REQUEST_TIMEOUT == 30000
KEEPALIVE_TIMEOUT == 120000
RECONNECT_DELAY == 5000
MAX_RECONNECT_ATTEMPTS == 5
SubscriptionTimeout == 300000
LingerMs == 60000
CleanupIntervalMs == 300000
\* config.ntfy.maxSubscriptions, as configured with NTFY_MAX_SUBSCRIPTIONS=1.
MaxSubscriptions == 1

\* Bounds of the subscriber model: subscribe() calls per subscriber, messages
\* counted per subscription, stop requests per subscription.
MaxSubscribes == 2
MaxRecords == 2
MaxStops == 2
\* Bounds of the registry with two subscriptions: clock advances, messages
\* counted per subscription.
MaxQuotaTicks == 1
MaxQuotaRecords == 1

\* The clock of the subscriber model advances in steps of the program's
\* smallest delay.
TickMs == RECONNECT_DELAY

SubIds == {"s1", "s2"}
\* A timer that is not armed.
NoTimer == -1
\* An undefined field (abortController, cleanupFn), and a reference to the
\* controller / cleanup function of a request that has already finished.
NoPtr == 0
Dead == -1
\* Each subscribe() call starts one chain of connection attempts, and a chain
\* has at most one request in progress.
AttemptIds == 1..MaxSubscribes
\* "More than KEEPALIVE_TIMEOUT ago" / "more than SubscriptionTimeout ago".
KeepaliveCap == KEEPALIVE_TIMEOUT + TickMs
AgeCap == SubscriptionTimeout + TickMs

Min(a, b) == IF a <= b THEN a ELSE b

IdleAttempt ==
  [phase |-> "free", aborted |-> FALSE, abortIn |-> NoTimer, initial |-> FALSE,
   gen |-> 0, poll |-> FALSE, gates |-> {}]

\* What the last step did with this subscriber: the operation, whether the
\* step before was the same operation, the handler callbacks it invoked (in
\* order), whether it started a connection attempt,
\* scheduled a reconnect, or gave up reconnecting, how a subscribe() call
\* settled in it, and whether a promise was rejected with no handler.
NoTrace ==
  [op |-> "none", again |-> FALSE, cbs |-> <<>>, started |-> FALSE,
   scheduled |-> FALSE, gaveUp |-> FALSE, settled |-> "none",
   malformed |-> FALSE, unhandled |-> FALSE]

\* No record in InMemorySubscriptionManager.subscriptions.
NoInfo ==
  [present |-> FALSE, status |-> "none", age |-> 0, hasActivity |-> FALSE,
   idle |-> 0, messageCount |-> 0, errorMessage |-> "none"]

\* The handlers a caller can pass to the constructor (NtfySubscriptionHandlers),
\* and the ones createSubscription passes.
SubscriberHandlers ==
  {"onMessage", "onOpen", "onKeepalive", "onAnyMessage", "onError", "onClose"}
RegistryHandlers == {"onMessage", "onOpen", "onError", "onClose"}

\* The two files that hold a class NtfySubscriber: unnamed/part_005 and
\* src/services/ntfy/subscriber.ts.
SubscriberFiles == {"part_005", "subscriber.ts"}

\* A freshly constructed NtfySubscriber (lastKeepaliveTime = 0 lies further
\* back than any timeout), not known to the registry, with every handler set.
\* file is the file of its class; fetchRefuses tells whether fetch() rejects
\* a URL that is not a string (a Promise) or sends a request all the same.
NewConn ==
  [file |-> "part_005", fetchRefuses |-> TRUE,
   handlers |-> SubscriberHandlers,
   abortController |-> NoPtr, cleanupFn |-> NoPtr, connectionActive |-> FALSE,
   sinceKeepalive |-> KeepaliveCap, reconnectAttempts |-> 0,
   keepaliveIn |-> NoTimer,
   attempts |-> [a \in AttemptIds |-> IdleAttempt], timers |-> {},
   subscribes |-> 0, wanted |-> FALSE,
   closes |-> [g \in 1..MaxSubscribes |-> 0], trace |-> NoTrace,
   info |-> NoInfo, created |-> FALSE, hasSubscriber |-> FALSE,
   creating |-> FALSE, autoStopIn |-> NoTimer, lingers |-> {}, stops |-> 0]

Begin(r, op) ==
  [r EXCEPT !.trace = [NoTrace EXCEPT !.op = op, !.again = r.trace.op = op]]

(***************************************************************************)
(* The registry's handlers (createSubscription): each looks its record up  *)
(* and updates it when it is still there.                                  *)
(***************************************************************************)
Touch(i) == [i EXCEPT !.hasActivity = TRUE, !.idle = 0]

\* The onError handler removes the record instead of marking it.
HandlerEffect_RemovesOnError(i, name, arg) ==
  IF ~i.present THEN i
  ELSE CASE name = "onMessage" ->
              [Touch(i) EXCEPT !.messageCount = @ + 1, !.status = "active"]
         [] name = "onOpen" -> [Touch(i) EXCEPT !.status = "active"]
         [] name = "onError" -> NoInfo
         [] name = "onClose" -> [Touch(i) EXCEPT !.status = "stopped"]
         [] OTHER -> i

HandlerEffect(i, name, arg) ==
  IF ~i.present THEN i
  ELSE CASE name = "onMessage" ->
              [Touch(i) EXCEPT !.messageCount = @ + 1, !.status = "active"]
         [] name = "onOpen" -> [Touch(i) EXCEPT !.status = "active"]
         [] name = "onError" ->
              [Touch(i) EXCEPT !.status = "error", !.errorMessage = arg]
         [] name = "onClose" -> [Touch(i) EXCEPT !.status = "stopped"]
         [] OTHER -> i

\* if (this.handlers.<name>) this.handlers.<name>(arg)
Handler(r, name, arg) ==
  IF name \notin r.handlers THEN r
  ELSE [r EXCEPT !.trace.cbs = Append(@, [name |-> name, arg |-> arg]),
                 !.info = HandlerEffect(@, name, arg)]

\* The subclasses of NtfyError among the errors that can be thrown.
NtfyErrors == {"Connection", "Closed", "Timeout", "Parse"}

\* handleSubscriptionError: an NtfyError is passed on as it is, anything else
\* (TypeError, AbortError) wrapped in an NtfyConnectionError.
HandleSubscriptionError(r, err) ==
  Handler(r, "onError", IF err \in NtfyErrors THEN err ELSE "Connection")

(***************************************************************************)
(* NtfySubscriber.                                                         *)
(***************************************************************************)
LiveAttempts(r) == {a \in AttemptIds : r.attempts[a].phase # "free"}

\* createAbortControllerWithTimeout's cleanup(): clearTimeout of the request's
\* abort timer.
Cleanup(r, p) ==
  IF p \in AttemptIds THEN [r EXCEPT !.attempts[p].abortIn = NoTimer] ELSE r

\* controller.abort()
Abort(r, p) ==
  IF p \in AttemptIds THEN [r EXCEPT !.attempts[p].aborted = TRUE] ELSE r

StopKeepaliveCheck(r) == [r EXCEPT !.keepaliveIn = NoTimer]

StartKeepaliveCheck(r) ==
  [StopKeepaliveCheck(r) EXCEPT !.sinceKeepalive = 0,
                                !.keepaliveIn = KEEPALIVE_TIMEOUT \div 2]

\* (mutant) an unsubscribe() that reports the close to the handlers.
Unsubscribe_FiresOnClose(r) ==
  LET r1 == StopKeepaliveCheck(r)
      r2 == IF r1.abortController # NoPtr
            THEN [Abort(r1, r1.abortController) EXCEPT !.abortController = NoPtr]
            ELSE r1
      r3 == IF r2.cleanupFn # NoPtr
            THEN [Cleanup(r2, r2.cleanupFn) EXCEPT !.cleanupFn = NoPtr]
            ELSE r2
  IN Handler([r3 EXCEPT !.connectionActive = FALSE], "onClose", "")

\* unsubscribe()
Unsubscribe(r) ==
  LET r1 == StopKeepaliveCheck(r)
      r2 == IF r1.abortController # NoPtr
            THEN [Abort(r1, r1.abortController) EXCEPT !.abortController = NoPtr]
            ELSE r1
      r3 == IF r2.cleanupFn # NoPtr
            THEN [Cleanup(r2, r2.cleanupFn) EXCEPT !.cleanupFn = NoPtr]
            ELSE r2
  IN [r3 EXCEPT !.connectionActive = FALSE]

\* (mutant) a reconnect delay that does not grow with the attempt number.
ScheduleReconnect_NoBackoff(r, at) ==
  [r EXCEPT !.reconnectAttempts = @ + 1,
            !.timers = @ \cup {[remaining |-> RECONNECT_DELAY, gen |-> at.gen,
                                 poll |-> at.poll]},
            !.trace.scheduled = TRUE]

\* scheduleReconnect
ScheduleReconnect(r, at) ==
  LET n == r.reconnectAttempts + 1
      delay == RECONNECT_DELAY * n
  IN [r EXCEPT !.reconnectAttempts = n,
               !.timers = @ \cup {[remaining |-> delay, gen |-> at.gen,
                                    poll |-> at.poll]},
               !.trace.scheduled = TRUE]

\* The request is over: its slot is free again, and a field still holding its
\* controller or cleanup function now refers to a finished request.
Release(r, a) ==
  [r EXCEPT !.attempts[a] = IdleAttempt,
            !.abortController = IF @ = a THEN Dead ELSE @,
            !.cleanupFn = IF @ = a THEN Dead ELSE @]

\* subscribe() after startSubscription resolved, and createSubscription after
\* subscribe() resolved (the automatic stop is armed here).
SubscribeResolved(r, at) ==
  LET r1 == IF ~at.poll THEN StartKeepaliveCheck(r) ELSE r
      r2 == [r1 EXCEPT !.trace.settled = "resolved"]
  IN IF r2.creating
     THEN [r2 EXCEPT !.creating = FALSE, !.autoStopIn = SubscriptionTimeout]
     ELSE r2

\* createSubscription without the clean-up of its catch block.
SubscribeRejected_KeepsRecord(r, at, err) ==
  [r EXCEPT !.trace.settled = "rejected", !.creating = FALSE]

\* subscribe() rethrows, and createSubscription's catch deletes the record
\* and the subscriber.
SubscribeRejected(r, at, err) ==
  LET r1 == [r EXCEPT !.trace.settled = "rejected"] IN
  IF r1.creating
  THEN [r1 EXCEPT !.creating = FALSE, !.info = NoInfo, !.hasSubscriber = FALSE]
  ELSE r1

\* The catch block of subscribe() in subscriber.ts: handleSubscriptionError,
\* then the error is thrown again.  The other file has no such block.
SubscribeCatch(r, err) ==
  IF r.file = "subscriber.ts" THEN HandleSubscriptionError(r, err) ELSE r

\* The promise of startSubscription settles: the initial attempt is awaited
\* by subscribe(), a reconnect attempt has handleSubscriptionError as its
\* catch handler.
Settled(r, a, ok, err) ==
  LET at == r.attempts[a]
      r1 == Release(r, a)
  IN IF at.initial
     THEN IF ok THEN SubscribeResolved(r1, at)
          ELSE SubscribeRejected(SubscribeCatch(r1, err), at, err)
     ELSE IF ok THEN r1 ELSE HandleSubscriptionError(r1, err)

\* The catch block with the reconnect decision blind to options.poll.
Catch_ReconnectsPoll(r, a, err) ==
  IF r.cleanupFn = NoPtr THEN Settled(r, a, FALSE, "TypeError")
  ELSE LET at == r.attempts[a]
           r1 == [Cleanup(r, r.cleanupFn) EXCEPT !.cleanupFn = NoPtr,
                                                 !.abortController = NoPtr,
                                                 !.connectionActive = FALSE]
       IN IF err # "Closed" /\ r1.reconnectAttempts < MAX_RECONNECT_ATTEMPTS
          THEN Settled(ScheduleReconnect(r1, at), a, TRUE, err)
          ELSE Settled([r1 EXCEPT !.trace.gaveUp = err # "Closed"], a, FALSE, err)

\* The catch block of startSubscription.  this.cleanupFn() throws a TypeError
\* when the field is undefined, and nothing after it is executed.
Catch(r, a, err) ==
  IF r.cleanupFn = NoPtr THEN Settled(r, a, FALSE, "TypeError")
  ELSE LET at == r.attempts[a]
           r1 == [Cleanup(r, r.cleanupFn) EXCEPT !.cleanupFn = NoPtr,
                                                 !.abortController = NoPtr,
                                                 !.connectionActive = FALSE]
       IN IF ~at.poll /\ err # "Closed"
             /\ r1.reconnectAttempts < MAX_RECONNECT_ATTEMPTS
          THEN Settled(ScheduleReconnect(r1, at), a, TRUE, err)
          ELSE Settled([r1 EXCEPT !.trace.gaveUp =
                           ~at.poll /\ err # "Closed"], a, FALSE, err)

\* startSubscription up to the fetch: a new controller with its abort timer,
\* stored in the subscriber's fields, and the request sent.  subscriber.ts
\* passes fetch the promises of buildSubscriptionUrl and createRequestHeaders:
\* a fetch that refuses them rejects with a TypeError before anything is
\* sent, and the catch block runs in the same task.
StartSubscription(r, gen, poll, initial) ==
  LET a == CHOOSE x \in AttemptIds : r.attempts[x].phase = "free"
      r1 == [r EXCEPT !.attempts[a] =
                        [phase |-> "fetching", aborted |-> FALSE,
                         abortIn |-> DEFAULT_REQUEST_TIMEOUT, initial |-> initial,
                         gen |-> gen, poll |-> poll,
                         gates |-> RateLimitersOf("startSubscription")],
                      !.abortController = a,
                      !.cleanupFn = a]
  IN IF r.file = "subscriber.ts" /\ r.fetchRefuses
     THEN Catch(r1, a, "TypeError")
     ELSE [r1 EXCEPT !.trace.started = TRUE]

\* An aborted request rejects: the fetch with an AbortError; the read of the
\* stream with an AbortError that processJsonStream turns into an
\* NtfySubscriptionClosedError after clearing connectionActive.
Unwind(r, a) ==
  IF r.attempts[a].phase = "fetching" THEN Catch(r, a, "AbortError")
  ELSE Catch([r EXCEPT !.connectionActive = FALSE], a, "Closed")

AbortedAttempts(r) == {a \in LiveAttempts(r) : r.attempts[a].aborted}

\* The promise reactions that run before the next timer or network event.
RECURSIVE Drain(_)
Drain(r) ==
  IF AbortedAttempts(r) = {} THEN r
  ELSE Drain(Unwind(r, CHOOSE a \in AbortedAttempts(r) : TRUE))

(***************************************************************************)
(* Topic names.  A topic is a string, modelled as the sequence of its      *)
(* characters.                                                             *)
(***************************************************************************)
Chars == {"a", "A", "b", " ", "\n", "\r"}

IsSpace(c) == c \in {" ", "\n", "\r"}

\* String.prototype.trim
RECURSIVE TrimStart(_)
TrimStart(str) ==
  IF str # <<>> /\ IsSpace(Head(str)) THEN TrimStart(Tail(str)) ELSE str

RECURSIVE TrimEnd(_)
TrimEnd(str) ==
  IF str # <<>> /\ IsSpace(str[Len(str)])
  THEN TrimEnd(SubSeq(str, 1, Len(str) - 1))
  ELSE str

Trim(str) == TrimEnd(TrimStart(str))

Includes(str, c) == \E i \in 1..Len(str) : str[i] = c

\* String.prototype.toLowerCase
ToLowerCase(str) == [i \in 1..Len(str) |-> IF str[i] = "A" THEN "a" ELSE str[i]]

\* sanitizeInput.string: plain text without markup passes as it is.
SanitizeString(str) == str

\* validateTopicSync
ValidateTopicSync(topic) ==
  IF topic = <<>> THEN FALSE
  ELSE LET sanitizedTopic == SanitizeString(topic) IN
       /\ Len(Trim(sanitizedTopic)) > 0
       /\ ~Includes(sanitizedTopic, "\n")
       /\ ~Includes(sanitizedTopic, "\r")

(***************************************************************************)
(* The rate limiters of the publish tool (ntfyTool/ntfyMessage.ts) and the *)
(* RateLimiter they are instances of.                                      *)
(***************************************************************************)
\* config.rateLimit, as configured with RATE_LIMIT_MAX_REQUESTS=2.
RateWindowMs == 60000
RateMaxRequests == 2
MAX_CACHED_TOPIC_LIMITERS == 1000

\* The topics of the send requests, the last one not a valid topic.
SendTopics == {<<"a">>, <<"A">>, <<"b">>, <<" ">>}
GlobalKey == <<"global">>

\* The topic of the i-th request of an earlier time, when many topics have
\* been used; the first of them is used again.
EarlierTopic(i) == <<"t", ToString(i)>>

SendKeys == SendTopics \cup {GlobalKey, EarlierTopic(1)}

\* perTopicLimit
PerTopicLimit == Min(50, RateMaxRequests \div 2)

\* A scope key without a window.
NoBucket == [count |-> 0, left |-> 0]

\* new RateLimiter({ windowMs, maxRequests })
NewRateLimiter(windowMs, maxRequests) ==
  [windowMs |-> windowMs, maxRequests |-> maxRequests,
   entries |-> [k \in SendKeys |-> NoBucket]]

\* RateLimiter.check(key): a fixed window per key that starts with the first
\* request; a request within the window is counted while the count is under
\* maxRequests and rejected otherwise.
Check(l, key) ==
  LET b == l.entries[key] IN
  IF b.left = 0
  THEN [ok |-> TRUE,
        limiter |-> [l EXCEPT !.entries[key] = [count |-> 1, left |-> l.windowMs]]]
  ELSE IF b.count < l.maxRequests
       THEN [ok |-> TRUE, limiter |-> [l EXCEPT !.entries[key].count = @ + 1]]
       ELSE [ok |-> FALSE, limiter |-> l]

\* The position of the normalized topic in the cache, 0 when absent.
CacheIndex(cache, normalizedTopic) ==
  IF \E i \in 1..Len(cache) : cache[i].topic = normalizedTopic
  THEN CHOOSE i \in 1..Len(cache) : cache[i].topic = normalizedTopic
  ELSE 0

\* The cache grows without eviction.
GetTopicRateLimiter_NoEviction(cache, topic) ==
  LET normalizedTopic == Trim(ToLowerCase(topic)) IN
  IF CacheIndex(cache, normalizedTopic) # 0 THEN cache
  ELSE Append(cache, [topic |-> normalizedTopic,
                      limiter |-> NewRateLimiter(RateWindowMs, PerTopicLimit)])

\* getTopicRateLimiter: the cache (a Map, in insertion order) after the call;
\* the limiter asked for is the entry of the normalized topic.
GetTopicRateLimiter(cache, topic) ==
  LET normalizedTopic == Trim(ToLowerCase(topic)) IN
  IF CacheIndex(cache, normalizedTopic) # 0 THEN cache
  ELSE LET c1 == IF Len(cache) >= MAX_CACHED_TOPIC_LIMITERS THEN Tail(cache)
                 ELSE cache
       IN Append(c1, [topic |-> normalizedTopic,
                      limiter |-> NewRateLimiter(RateWindowMs, PerTopicLimit)])

\* What an observer of the check() calls of one scope key counts: the calls
\* admitted in the window begun by the first admitted call, and the time left
\* of that window.
NoWindow == [admitted |-> 0, left |-> 0]

\* The result of the request that took the last step: what it came to, the
\* check() calls of the step with the windows before them, the publish()
\* calls made so far, and whether the request goes on.
NoSendResult ==
  [id |-> "none", topic |-> <<>>, outcome |-> "none", checks |-> <<>>,
   priorTopics |-> {}, before |-> [k \in SendKeys |-> NoWindow],
   attempts |-> 0, error |-> "none", running |-> FALSE]

\* The requests of the tool that can be under way together.
SendIds == {"A", "B"}

\* A request is known by the first id no request under way has.
IdBefore(a, b) == a = "A" /\ b = "B"

\* A request between the calls of processNtfyMessage: awaiting publish(), or
\* asleep before a retry.
NoReq == [phase |-> "idle", topic |-> <<>>, retries |-> 0, timer |-> NoTimer]

\* The module state of ntfyMessage.ts after loading, and the observer's.
NewSend ==
  [globalRateLimiter |-> NewRateLimiter(RateWindowMs, RateMaxRequests),
   topicRateLimiters |-> <<>>,
   windows |-> [k \in SendKeys |-> NoWindow],
   windowTopics |-> {},
   reqs |-> [id \in SendIds |-> NoReq],
   sleeps |-> 0,
   last |-> NoSendResult]

(***************************************************************************)
(* One run of processJsonStream.                                           *)
(***************************************************************************)
NoDec == [lines |-> <<>>, open |-> FALSE, wire |-> <<>>, rest |-> <<>>,
          pending |-> "none", buffer |-> <<>>, out |-> <<>>,
          connectionActive |-> FALSE, closed |-> FALSE, thrown |-> FALSE,
          cut |-> "none"]

(***************************************************************************)
(* PollStateManager (pollState.ts).                                        *)
(***************************************************************************)
PollCleanupIntervalMs == 300000

\* The age test of getState and cleanupExpiredStates, at clock value `at`.
ExpiredAt(o, at) == at - o.updatedAt > PollStateTtl

Expired(o) == ExpiredAt(o, now)

\* getState without the test of the age.
GetState_NoTtl(m, t) == m[t]

\* getState: the stored object, or NoObj when absent or expired.
GetState(m, t) ==
  IF m[t] # NoObj /\ ~Expired(objs[m[t]]) THEN m[t] ELSE NoObj

\* getState's side effect: an expired entry is deleted.
StatesAfterGet(m, t) ==
  IF m[t] # NoObj /\ Expired(objs[m[t]]) THEN [m EXCEPT ![t] = NoObj] ELSE m

\* resetState leaves the entry where it is.
ResetState_KeepsEntry(m, t) == m

\* resetState: delete the entry.
ResetState(m, t) == [m EXCEPT ![t] = NoObj]

\* cleanupExpiredStates, run at clock value `at`: every entry older than the
\* TTL is deleted.
StatesAfterCleanup(m, at) ==
  [t \in Topics |-> IF m[t] # NoObj /\ ExpiredAt(objs[m[t]], at) THEN NoObj ELSE m[t]]

\* The last time in (from, to] at which the interval set up by the constructor
\* (at StartNow) fires; NoTimer when it does not fire in between.
LastSweep(from, to) ==
  LET at == to - ((to - StartNow) % PollCleanupIntervalMs)
  IN IF at > from THEN at ELSE NoTimer

\* setState: stamp updatedAt and store the reference.
SetStateObj(o) == [o EXCEPT !.updatedAt = now]

\* The object processPollTopic builds when getState found nothing (its topic
\* and createdAt fields are written once and never read, and are left out).
NewPollState ==
  [lastMessageId |-> NoId, lastPollTime |-> now, totalMessagesSeen |-> 0,
   updatedAt |-> now]

(***************************************************************************)
(* processPollTopic (pollManager.ts) and fetchMessages (utils.ts).         *)
(***************************************************************************)
\* (mutant) the id cursor ignored: since is always computed from lastPollTime.
SinceOf_TimeOnly(o) ==
  [kind |-> "time", id |-> NoId, ts |-> ToISOString(o.lastPollTime)]

\* The `since` parameter computed from the cursor.
SinceOf(o) ==
  IF o.lastMessageId # NoId THEN [kind |-> "id", id |-> o.lastMessageId, ts |-> ToISOString(0)]
  ELSE IF o.lastPollTime > 0
       THEN [kind |-> "time", id |-> NoId, ts |-> ToISOString(o.lastPollTime)]
       ELSE [kind |-> "none", id |-> NoId, ts |-> ToISOString(0)]

\* The upstream service's answer to GET /topic/json?poll=1&since=...: the
\* messages after the given id, or those at or after the given time (the
\* service's message time is in whole seconds), or the whole cache.
ServerMessagesSince(t, since) ==
  LET all == upstream[t] IN
  CASE since.kind = "id" ->
         LET i == IndexOfId(all, since.id) IN
         IF i = 0 THEN all ELSE SubSeq(all, i + 1, Len(all))
    [] since.kind = "time" ->
         SelectSeq(all, LAMBDA m : m.time >= since.ts.sec)
    [] OTHER -> all

EffectiveLimit(limit) == IF limit = 0 THEN DefaultMessageLimit ELSE limit

\* fetchMessages: keep the records whose event is "message", then the first
\* `limit` of them.
FetchMessages(body, limit) ==
  Take(SelectSeq(body, LAMBDA m : m.event = "message"), EffectiveLimit(limit))

\* The local filter of processPollTopic: with an id cursor every fetched
\* message is new, with a time cursor only those later than lastPollTime.
NewMessages(o, fetched) ==
  IF o.lastMessageId # NoId THEN fetched
  ELSE SelectSeq(fetched, LAMBDA m : m.time * MsPerSecond > o.lastPollTime)

\* The cursor update of processPollTopic.
UpdatedPollState(o, newMessages) ==
  LET o1 == IF Len(newMessages) > 0
            THEN [o EXCEPT !.lastMessageId = newMessages[Len(newMessages)].id,
                           !.totalMessagesSeen = @ + Len(newMessages)]
            ELSE o
  IN [o1 EXCEPT !.lastPollTime = now, !.updatedAt = now]

IdleCall ==
  [pc |-> "idle", topic |-> "", obj |-> NoObj, since |-> SinceOf(
      [lastMessageId |-> NoId, lastPollTime |-> 0]), limit |-> 0,
   response |-> <<>>, hadState |-> FALSE, dropped |-> FALSE, totalBefore |-> 0,
   truncated |-> FALSE, gates |-> {}, reset |-> FALSE, abortAt |-> 0]

NoPoll ==
  [polled |-> FALSE, returned |-> <<>>, expected |-> <<>>, clean |-> FALSE,
   hadState |-> FALSE, fits |-> FALSE,
   totalAfter |-> 0, cursor |-> "none", quietRun |-> 0]

\* The audit of a topic nobody has polled or published to.  `late`: a message
\* was published after the service answered the call in flight; `backlog`:
\* the last finished poll left messages of the service unread, those that
\* came late or those its limit cut off.
NoAudit ==
  [pending |-> <<>>, taint |-> 0, last |-> NoPoll, late |-> FALSE,
   backlog |-> FALSE]

\* An object nobody references any more is garbage: its slot is cleared and
\* may be given to the next object created.
FreeObj == [lastMessageId |-> NoId, lastPollTime |-> 0, totalMessagesSeen |-> 0,
            updatedAt |-> 0]

Referenced(m, cs) ==
  {m[t] : t \in Topics} \cup {cs[q].obj : q \in Pollers}

Collect(h, m, cs) ==
  [i \in ObjIds |-> IF i \in Referenced(m, cs) THEN h[i] ELSE FreeObj]

FreshObj == CHOOSE i \in ObjIds : i \notin Referenced(states, calls)

InFlight(t) == \E q \in Pollers : calls[q].pc # "idle" /\ calls[q].topic = t

\* processPollTopic up to the fetch: reset, getState, create, compute since,
\* send the request.
PollStart(p, t, resetState, limit) ==
  /\ calls[p].pc = "idle"
  /\ p # "p1" => calls["p1"].pc # "idle"
  /\ LET m1 == IF resetState THEN ResetState(states, t) ELSE states
         found == GetState(m1, t)
         m2 == StatesAfterGet(m1, t)
         id == IF found = NoObj THEN FreshObj ELSE found
         o == IF found = NoObj THEN NewPollState ELSE objs[found]
         cs == [calls EXCEPT ![p] =
             [pc |-> "fetching", topic |-> t, obj |-> id, since |-> SinceOf(o),
              limit |-> limit, response |-> <<>>, hadState |-> found # NoObj,
              dropped |-> states[t] # NoObj /\ found = NoObj,
              totalBefore |-> o.totalMessagesSeen, truncated |-> FALSE,
              gates |-> RateLimitersOf("processPollTopic"),
              reset |-> resetState,
              abortAt |-> now + DEFAULT_REQUEST_TIMEOUT]]
     IN /\ states' = m2
        /\ calls' = cs
        /\ objs' = Collect([objs EXCEPT ![id] = o], m2, cs)
        /\ audit' = IF InFlight(t) THEN [audit EXCEPT ![t].taint = 2] ELSE audit
  /\ UNCHANGED <<now, ticks, upstream, nextMsgId, cleanupInterval>>
  /\ UNCHANGED <<subVars, auxVars>>

\* The service answers the request; fetchMessages parses and truncates.
ServerRespond(p) ==
  /\ calls[p].pc = "fetching"
  /\ LET c == calls[p]
         body == ServerMessagesSince(c.topic, c.since)
     IN calls' = [calls EXCEPT ![p].pc = "responded",
                               ![p].response = FetchMessages(body, c.limit),
                               ![p].truncated = Len(body) > EffectiveLimit(c.limit)]
  /\ UNCHANGED <<now, ticks, upstream, nextMsgId, states, objs, audit, cleanupInterval>>
  /\ UNCHANGED <<subVars, auxVars>>

\* The fetch fails and the call stores its state all the same, with
\* lastPollTime moved to now.
PollFail_MovesCursor(p) ==
  /\ calls[p].pc # "idle"
  /\ LET c == calls[p]
         m2 == [states EXCEPT ![c.topic] = c.obj]
         cs == [calls EXCEPT ![p] = IdleCall]
     IN /\ states' = m2
        /\ calls' = cs
        /\ objs' = Collect([objs EXCEPT ![c.obj] =
                               SetStateObj([@ EXCEPT !.lastPollTime = now])], m2, cs)
  /\ audit' = [audit EXCEPT ![calls[p].topic].taint = 2,
                            ![calls[p].topic].late = FALSE]
  /\ UNCHANGED <<now, ticks, upstream, nextMsgId, cleanupInterval>>
  /\ UNCHANGED <<subVars, auxVars>>

\* fetchMessages throws: the request fails (network error, non-2xx, abort)
\* or, after the service has answered, the reading of the body does (await
\* response.text() rejects).  The call ends with nothing stored.
PollFail(p) ==
  /\ calls[p].pc # "idle"
  /\ calls' = [calls EXCEPT ![p] = IdleCall]
  /\ objs' = Collect(objs, states, calls')
  /\ audit' = [audit EXCEPT ![calls[p].topic].taint = 2,
                            ![calls[p].topic].late = FALSE]
  /\ UNCHANGED <<now, ticks, upstream, nextMsgId, states, cleanupInterval>>
  /\ UNCHANGED <<subVars, auxVars>>

\* processPollTopic after the fetch: filter, update the cursor, setState.
PollFinish(p) ==
  /\ calls[p].pc = "responded"
  /\ LET c == calls[p]
         t == c.topic
         o == objs[c.obj]
         newMessages == NewMessages(o, c.response)
         o2 == SetStateObj(UpdatedPollState(o, newMessages))
         a == audit[t]
         m2 == [states EXCEPT ![t] = c.obj]
         cs == [calls EXCEPT ![p] = IdleCall]
     IN /\ states' = m2
        /\ calls' = cs
        /\ objs' = Collect([objs EXCEPT ![c.obj] = o2], m2, cs)
        /\ audit' = [audit EXCEPT ![t] =
             [pending |-> <<>>,
              late |-> FALSE,
              backlog |-> a.late \/ c.truncated,
              taint |-> IF c.truncated THEN 1 ELSE Max(a.taint - 1, 0),
              last |-> [polled |-> TRUE, returned |-> Ids(newMessages),
                        expected |-> a.pending, clean |-> a.taint = 0,
                        hadState |-> c.hadState,
                        quietRun |-> IF a.last.polled /\ ~a.backlog /\ a.pending = <<>>
                                     THEN IF a.last.quietRun = 0 THEN 1 ELSE 2
                                     ELSE 0,
                        fits |-> Len(a.pending) <= EffectiveLimit(c.limit),
                        totalAfter |-> o2.totalMessagesSeen,
                        cursor |-> c.since.kind]]]
  /\ UNCHANGED <<now, ticks, upstream, nextMsgId, cleanupInterval>>
  /\ UNCHANGED <<subVars, auxVars>>

\* The service has answered a call on t that has not ended yet.
Answered(t) == \E q \in Pollers : calls[q].pc = "responded" /\ calls[q].topic = t

\* The last poll of t finished at this very reading of the clock.
JustPolled(t) == states[t] # NoObj /\ objs[states[t]].lastPollTime = now

\* A publisher posts a message to the topic: the service stamps it with an id
\* and the time in whole seconds.  (For the audit a message published while a
\* poll is in flight, or in the millisecond the last poll finished in, counts
\* as one that arrived in the race window.)
Publish(t) ==
  /\ nextMsgId <= MaxPublished
  /\ upstream' = [upstream EXCEPT ![t] = Append(@,
       [id |-> nextMsgId, time |-> now \div MsPerSecond, event |-> "message"])]
  /\ nextMsgId' = nextMsgId + 1
  /\ audit' = [audit EXCEPT ![t].pending = Append(@, nextMsgId),
                            ![t].taint = IF InFlight(t) THEN 2
                                         ELSE IF JustPolled(t) THEN Max(@, 1) ELSE @,
                            ![t].late = @ \/ Answered(t)]
  /\ UNCHANGED <<now, ticks, states, objs, calls, cleanupInterval>>
  /\ UNCHANGED <<subVars, auxVars>>

PollTickSteps == {500, PollStateTtl}

\* AbortSignal.timeout(DEFAULT_REQUEST_TIMEOUT) of the call's fetch has fired
\* by the clock value `at`: the request, or the reading of its body, is
\* aborted and the call throws.
TimedOut(c, at) == c.pc # "idle" /\ c.abortAt <= at

\* The entries of the store that are gone in m2: what the next poll of such a
\* topic returns is no longer what was published since the last poll.
AuditRemoved(m2) ==
  [t \in Topics |-> IF states[t] # NoObj /\ m2[t] = NoObj
                     THEN [audit[t] EXCEPT !.taint = 2] ELSE audit[t]]

\* Time passes, and the timers that come due run: the sweeps of the store's
\* interval (the last one removes whatever an earlier one would) and the
\* timeouts of the calls in flight, which fail as in PollFail, before or
\* after the service has answered.
PollTick(d) ==
  /\ ticks < MaxTicks
  /\ now' = now + d
  /\ ticks' = ticks + 1
  /\ LET at == LastSweep(now, now + d)
         m2 == IF cleanupInterval /\ at # NoTimer
               THEN StatesAfterCleanup(states, at) ELSE states
         cs == [p \in Pollers |->
                  IF TimedOut(calls[p], now + d) THEN IdleCall ELSE calls[p]]
         au == AuditRemoved(m2)
     IN /\ states' = m2
        /\ calls' = cs
        /\ objs' = Collect(objs, m2, cs)
        /\ audit' = [t \in Topics |->
             IF \E p \in Pollers : TimedOut(calls[p], now + d) /\ calls[p].topic = t
             THEN [au[t] EXCEPT !.taint = 2, !.late = FALSE] ELSE au[t]]
  /\ UNCHANGED <<upstream, nextMsgId, cleanupInterval>>
  /\ UNCHANGED <<subVars, auxVars>>

\* A call of the store's public cleanupExpiredStates() (a call that finds
\* nothing to delete changes nothing).
CleanupExpiredStates ==
  /\ states # StatesAfterCleanup(states, now)
  /\ states' = StatesAfterCleanup(states, now)
  /\ objs' = Collect(objs, states', calls)
  /\ audit' = AuditRemoved(states')
  /\ UNCHANGED <<now, ticks, upstream, nextMsgId, calls, cleanupInterval>>
  /\ UNCHANGED <<subVars, auxVars>>

\* destroy() of the store: the interval is cleared and the map emptied (on a
\* store that is empty and has no interval it changes nothing).
DestroyPollState ==
  /\ cleanupInterval \/ \E t \in Topics : states[t] # NoObj
  /\ cleanupInterval' = FALSE
  /\ states' = [t \in Topics |-> NoObj]
  /\ objs' = Collect(objs, states', calls)
  /\ audit' = AuditRemoved(states')
  /\ UNCHANGED <<now, ticks, upstream, nextMsgId, calls>>
  /\ UNCHANGED <<subVars, auxVars>>

InitPoll ==
  /\ now = StartNow
  /\ ticks = 0
  /\ upstream = [t \in Topics |-> <<>>]
  /\ nextMsgId = 1
  /\ states = [t \in Topics |-> NoObj]
  /\ objs = [i \in ObjIds |-> FreeObj]
  /\ calls = [p \in Pollers |-> IdleCall]
  /\ audit = [t \in Topics |-> NoAudit]
  /\ cleanupInterval = TRUE
  /\ conn = [s \in SubIds |-> NewConn]
  /\ sweepIn = NoTimer
  /\ send = NewSend
  /\ dec = NoDec

PollLimits == {0, 1}

NextPoll ==
  \/ \E p \in {"p1"}, t \in Topics, r \in BOOLEAN, l \in PollLimits : PollStart(p, t, r, l)
  \/ \E p \in Pollers : ServerRespond(p)
  \/ \E p \in Pollers : PollFail(p)
  \/ \E p \in Pollers : PollFinish(p)
  \/ \E t \in Topics : Publish(t)
  \/ \E d \in PollTickSteps : PollTick(d)
  \/ CleanupExpiredStates
  \/ DestroyPollState

SpecPoll == InitPoll /\ [][NextPoll]_vars

(***************************************************************************)
(* Claims about polling.                                                   *)
(***************************************************************************)
\* The two ways a call ends.  The audit marks the topic of a call that threw
\* (its fetch failed, the reading of the body did, or the request timed out)
\* with taint 2, and no call that returns leaves that mark.
Throws(p) ==
  /\ calls[p].pc # "idle"
  /\ calls'[p].pc = "idle"
  /\ audit'[calls[p].topic].taint = 2

Returns(p) ==
  /\ calls[p].pc = "responded"
  /\ calls'[p].pc = "idle"
  /\ audit'[calls[p].topic].taint < 2

\* The last finished poll of topic t was one of a sequence of sequential
\* polls with nothing published while a poll was in flight, and no earlier
\* poll left a backlog behind because of its limit.
CleanPoll(t) == audit[t].last.polled /\ audit[t].last.clean

\* C1: when a stored cursor exists (time-based or id-based) and N <= limit
\* messages were published since the previous poll, none of them while a poll
\* was in flight, the poll returns exactly those N messages; with N = 0 it
\* returns none (no loss, no duplicates).
C1_PollReturnsExactlyTheNew ==
  \A t \in Topics :
    (CleanPoll(t) /\ audit[t].last.hadState /\ audit[t].last.fits)
      => audit[t].last.returned = audit[t].last.expected

\* The call of p is a quiet poll: there has been a finished poll of its topic
\* before it, nothing was published to the topic since the service answered
\* that poll, and that poll's limit had cut nothing off.  Polls that failed
\* or timed out in between, sweeps of the store, destroy() and the expiry of
\* the stored state do not matter.
QuietPoll(p) ==
  LET a == audit[calls[p].topic] IN
  a.last.polled /\ ~a.backlog /\ a.pending = <<>>

\* C2 as stated: a poll(T) with no new upstream messages since the previous
\* poll(T) returns an empty newMessages, and the totalMessagesSeen stored
\* after it is the one stored after the previous poll.
C2_QuietPollKeepsTotal ==
  [][\A p \in Pollers :
       (Returns(p) /\ QuietPoll(p) /\ ~calls[p].reset)
         => LET t == calls[p].topic IN
            /\ audit'[t].last.returned = <<>>
            /\ objs'[states'[t]].totalMessagesSeen = audit[t].last.totalAfter]_vars

\* C2 (amended): a poll with no new upstream messages since the previous poll
\* of the topic returns an empty newMessages; the totalMessagesSeen it stores
\* is what the previous poll stored when the call found that state in the
\* store, and 0 when it did not (the state had expired, or was removed by a
\* sweep, by resetState or by destroy(), and the call began a new one).
C2_QuietPollIsEmpty ==
  [][\A p \in Pollers :
       (Returns(p) /\ QuietPoll(p))
         => LET t == calls[p].topic IN
            /\ audit'[t].last.returned = <<>>
            /\ objs'[states'[t]].totalMessagesSeen =
                 IF calls[p].hadState THEN audit[t].last.totalAfter ELSE 0]_vars

\* Two quiet polls in succession have finished on a stored state that counts
\* a message, the messages still being in the service's cache.
C2_Witness ==
  \E t \in Topics :
    /\ audit[t].last.quietRun = 2
    /\ audit[t].last.hadState
    /\ audit[t].last.totalAfter > 0
    /\ Len(upstream[t]) > 0
    /\ audit[t].last.returned = <<>>

(***************************************************************************)
(* Steps of one subscriber.  Each step is one task of the event loop: a    *)
(* call, a timer, or a network event, together with the promise reactions  *)
(* it triggers.                                                            *)
(***************************************************************************)
Quiet(r) == [r EXCEPT !.trace = NoTrace]

\* lastKeepaliveTime is read by the keepalive check only, and set anew when
\* the check is started: while no check is armed its value is immaterial.
Norm(r) ==
  IF r.keepaliveIn = NoTimer THEN [r EXCEPT !.sinceKeepalive = KeepaliveCap] ELSE r

Step(s, r) ==
  /\ conn' = [x \in SubIds |-> IF x = s THEN Norm(Drain(r)) ELSE Quiet(conn[x])]
  /\ UNCHANGED sweepIn
  /\ UNCHANGED <<pollVars, auxVars>>

\* subscribe(topic, options) with a valid topic: unsubscribe, reset the
\* reconnect counter, start the first attempt.
Subscribe(r, poll) ==
  LET r1 == [Unsubscribe(r) EXCEPT !.reconnectAttempts = 0,
                                   !.subscribes = @ + 1,
                                   !.wanted = TRUE]
  IN StartSubscription(r1, r1.subscribes, poll, TRUE)

\* The topics passed to subscribe() and to createSubscription.
SubTopics == {<<"a">>, <<>>, <<" ">>, <<"a", "\n">>, <<"\r", "a">>}

\* A topic the claim calls malformed.
Malformed(topic) ==
  \/ topic = <<>>
  \/ Trim(topic) = <<>>
  \/ Includes(topic, "\n")
  \/ Includes(topic, "\r")

\* throw new NtfyInvalidTopicError: subscribe() rejects, nothing else is done.
ThrowInvalidTopic(r) == [r EXCEPT !.trace.settled = "InvalidTopic"]

\* subscribe() of unnamed/part_005: if (!validateTopicSync(topic)) throw.
SubscribeTopic(r, topic, poll) ==
  IF ~ValidateTopicSync(topic) THEN ThrowInvalidTopic(r)
  ELSE Subscribe(r, poll)

SubscribeCall(s, poll) ==
  /\ conn[s].subscribes < MaxSubscribes
  /\ Step(s, Subscribe(Begin(conn[s], "subscribe"), poll))

UnsubscribeCall(s) ==
  /\ conn[s].subscribes > 0
  /\ Step(s, [Unsubscribe(Begin(conn[s], "unsubscribe")) EXCEPT !.wanted = FALSE])

\* An established connection sets the reconnect counter back to 0.
FetchOk_ResetsCounter(s, a) ==
  /\ conn[s].attempts[a].phase = "fetching"
  /\ Step(s, [Begin(conn[s], "fetchOk") EXCEPT !.connectionActive = TRUE,
                                              !.attempts[a].phase = "streaming",
                                              !.reconnectAttempts = 0])

\* The service answers 2xx: the connection is active and the stream is read.
FetchOk(s, a) ==
  /\ conn[s].attempts[a].phase = "fetching"
  /\ Step(s, [Begin(conn[s], "fetchOk") EXCEPT !.connectionActive = TRUE,
                                              !.attempts[a].phase = "streaming"])

\* The request fails (network error, or a non-2xx answer turned into an
\* NtfyConnectionError).
FetchFail(s, a) ==
  /\ conn[s].attempts[a].phase = "fetching"
  /\ Step(s, Catch(Begin(conn[s], "fetchFail"), a, "Connection"))

RecordKinds == {"open", "message", "keepalive", "garbage"}

\* parseJsonMessageSync of one line: the event of the record, or a parse
\* error.
ParseLine(kind) == IF kind = "garbage" THEN "ParseError" ELSE kind

HandlerOf(event) ==
  CASE event = "message" -> "onMessage"
    [] event = "open" -> "onOpen"
    [] event = "keepalive" -> "onKeepalive"

\* handleMessage: the handler of the event, then onAnyMessage.
HandleMessage(r, event) ==
  Handler(Handler([r EXCEPT !.sinceKeepalive = 0], HandlerOf(event), ""),
          "onAnyMessage", "")

\* handleMessage of subscriber.ts is handed the promise of parseJsonMessage:
\* its event is undefined, so no handler of an event is called; a line that
\* does not parse rejects the promise, which nothing handles.
HandlePromise(r, kind) ==
  Handler([r EXCEPT !.sinceKeepalive = 0,
                    !.trace.unhandled = ParseLine(kind) = "ParseError"],
          "onAnyMessage", "")

\* handleMessage / handleParseError
Dispatch(r, kind) ==
  IF r.file = "subscriber.ts" THEN HandlePromise(r, kind)
  ELSE IF ParseLine(kind) = "ParseError" THEN Handler(r, "onError", "Parse")
  ELSE HandleMessage(r, ParseLine(kind))

\* A chunk with one complete line arrives.  The loop of processJsonStream
\* goes on reading only while connectionActive is set.
StreamRecord(s, a, kind) ==
  /\ conn[s].attempts[a].phase = "streaming"
  /\ conn[s].info.messageCount < MaxRecords
  /\ LET r1 == Dispatch(Begin(conn[s], "record"), kind)
     IN Step(s, IF r1.connectionActive THEN r1 ELSE Settled(r1, a, TRUE, "none"))

\* The stream ends (done): connectionActive is cleared, onClose is called,
\* startSubscription resolves.
StreamEnd(s, a) ==
  /\ conn[s].attempts[a].phase = "streaming"
  /\ LET g == conn[s].attempts[a].gen
         r1 == [Begin(conn[s], "streamEnd") EXCEPT !.connectionActive = FALSE,
                                                   !.closes[g] = @ + 1]
     IN Step(s, Settled(Handler(r1, "onClose", ""), a, TRUE, "none"))

\* Reading the stream fails for another reason than an abort.
StreamError(s, a) ==
  /\ conn[s].attempts[a].phase = "streaming"
  /\ Step(s, Catch([Begin(conn[s], "streamError") EXCEPT !.connectionActive = FALSE],
                   a, "Connection"))

\* The timer of createAbortControllerWithTimeout fires: controller.abort().
AbortTimerFire(s, a) ==
  /\ conn[s].attempts[a].phase # "free"
  /\ conn[s].attempts[a].abortIn = 0
  /\ Step(s, [Begin(conn[s], "abortTimer") EXCEPT !.attempts[a].aborted = TRUE,
                                                 !.attempts[a].abortIn = NoTimer])

\* The timer of scheduleReconnect fires.
ReconnectTimerFire(s, tm) ==
  /\ tm \in conn[s].timers
  /\ tm.remaining = 0
  /\ LET r1 == [Begin(conn[s], "reconnectTimer") EXCEPT !.timers = @ \ {tm}]
     IN Step(s, IF ~r1.connectionActive
                THEN StartSubscription(r1, tm.gen, tm.poll, FALSE)
                ELSE r1)

\* The interval of startKeepaliveCheck fires.
KeepaliveFire(s) ==
  /\ conn[s].keepaliveIn = 0
  /\ LET r == conn[s]
         r1 == [r EXCEPT !.keepaliveIn = KEEPALIVE_TIMEOUT \div 2]
     IN Step(s, IF r.sinceKeepalive > KEEPALIVE_TIMEOUT /\ r.connectionActive
                THEN Unsubscribe(HandleSubscriptionError(
                         Begin(r1, "keepaliveTimeout"), "Timeout"))
                ELSE Begin(r1, "keepaliveCheck"))

(***************************************************************************)
(* The clock.  A timer that is due fires before time passes.               *)
(***************************************************************************)
Dec(t, d) == IF t = NoTimer THEN NoTimer ELSE t - d

\* The times left on the armed timers of one subscription.
PendingTimers(r) ==
  {r.attempts[a].abortIn : a \in LiveAttempts(r)}
    \cup {tm.remaining : tm \in r.timers}
    \cup {r.keepaliveIn, r.autoStopIn}
    \cup r.lingers

Pending == (UNION {PendingTimers(conn[s]) : s \in SubIds} \cup {sweepIn}) \ {NoTimer}

Advance(r, d) ==
  [r EXCEPT !.attempts = [a \in AttemptIds |-> [@[a] EXCEPT !.abortIn = Dec(@, d)]],
            !.timers = {[tm EXCEPT !.remaining = @ - d] : tm \in @},
            !.keepaliveIn = Dec(@, d),
            !.autoStopIn = Dec(@, d),
            !.lingers = {l - d : l \in @},
            !.sinceKeepalive = IF r.keepaliveIn = NoTimer THEN KeepaliveCap
                               ELSE Min(@ + d, KeepaliveCap),
            !.info = IF r.info.present
                     THEN [r.info EXCEPT
                             !.age = Min(r.info.age + d, AgeCap),
                             !.idle = IF r.info.hasActivity
                                      THEN Min(r.info.idle + d, AgeCap) ELSE 0]
                     ELSE r.info,
            !.trace = NoTrace]

SetMin(S) == CHOOSE x \in S : \A y \in S : x <= y

\* The time until the next armed timer is due (one step of the clock when
\* none is armed).
NextDeadline == IF Pending = {} THEN TickMs ELSE SetMin(Pending)

Elapse(d) ==
  /\ d > 0
  /\ \A t \in Pending : d <= t
  /\ conn' = [s \in SubIds |-> Advance(conn[s], d)]
  /\ sweepIn' = Dec(sweepIn, d)

Tick(d) ==
  /\ Elapse(d)
  /\ UNCHANGED <<pollVars, auxVars>>

(***************************************************************************)
(* A subscriber used on its own.                                           *)
(***************************************************************************)
Solo == {"s1"}

InitSub == InitPoll

NextSub ==
  \/ \E s \in Solo, poll \in BOOLEAN : SubscribeCall(s, poll)
  \/ \E s \in Solo : UnsubscribeCall(s)
  \/ \E s \in Solo, a \in AttemptIds : FetchOk(s, a)
  \/ \E s \in Solo, a \in AttemptIds : FetchFail(s, a)
  \/ \E s \in Solo, a \in AttemptIds, kind \in RecordKinds : StreamRecord(s, a, kind)
  \/ \E s \in Solo, a \in AttemptIds : StreamEnd(s, a)
  \/ \E s \in Solo, a \in AttemptIds : StreamError(s, a)
  \/ \E s \in Solo, a \in AttemptIds : AbortTimerFire(s, a)
  \/ \E s \in Solo : \E tm \in conn[s].timers : ReconnectTimerFire(s, tm)
  \/ \E s \in Solo : KeepaliveFire(s)
  \/ Tick(NextDeadline)

SpecSub == InitSub /\ [][NextSub]_vars

(***************************************************************************)
(* Claims about the subscriber.                                            *)
(***************************************************************************)
\* C3: a reconnect timer that fires after a deliberate unsubscribe() (and
\* before any new subscribe()) does not start a connection attempt.
C3_UnsubscribeWinsReconnectRace ==
  \A s \in SubIds :
    (conn[s].trace.op = "reconnectTimer" /\ ~conn[s].wanted)
      => ~conn[s].trace.started

\* Everything of a subscriber but the note of what the last step did.
SubscriberState(r) == [r EXCEPT !.trace = NoTrace]

\* C4: an unsubscribe() that directly follows an unsubscribe() leaves the
\* subscriber's state as it is and invokes no handler, and the streams
\* started by one subscribe() call invoke onClose at most once.
C4_UnsubscribeIdempotent ==
  [][\A s \in SubIds :
       /\ (conn[s].trace.op = "unsubscribe" /\ conn'[s].trace.op = "unsubscribe")
            => /\ SubscriberState(conn'[s]) = SubscriberState(conn[s])
               /\ conn'[s].trace.cbs = <<>>
       /\ \A g \in 1..MaxSubscribes : conn'[s].closes[g] <= 1]_vars

\* A second unsubscribe() in a row, after the stream of the first
\* subscribe() ended with onClose.
C4_Witness ==
  \E s \in SubIds :
    /\ conn[s].trace.op = "unsubscribe"
    /\ conn[s].trace.again
    /\ conn[s].closes[1] = 1

\* C5: the step in which the keepalive check finds the connection silent for
\* longer than KEEPALIVE_TIMEOUT invokes onError exactly once, with a timeout
\* error, and schedules a reconnect.
C5_KeepaliveTimeoutReconnects ==
  \A s \in SubIds :
    conn[s].trace.op = "keepaliveTimeout"
      => /\ conn[s].trace.cbs = <<[name |-> "onError", arg |-> "Timeout"]>>
         /\ conn[s].trace.scheduled

(***************************************************************************)
(* InMemorySubscriptionManager (subscriptionTool/subscriptionManager.ts).  *)
(***************************************************************************)
\* getSubscription
GetSubscription(s) == conn[s].info

\* getActiveSubscriptions: the records whose status is active or connecting.
GetActiveSubscriptions ==
  {s \in SubIds : conn[s].info.present
                   /\ conn[s].info.status \in {"active", "connecting"}}

NewInfo ==
  [present |-> TRUE, status |-> "connecting", age |-> 0, hasActivity |-> FALSE,
   idle |-> 0, messageCount |-> 0, errorMessage |-> "none"]

\* stopSubscription: nothing when the record is absent; otherwise
\* unsubscribe and forget the subscriber, mark the record stopped, and arm
\* the timer that deletes the record.
StopSubscription(r) ==
  IF ~r.info.present THEN r
  ELSE LET r1 == IF r.hasSubscriber
                 THEN [Unsubscribe(r) EXCEPT !.hasSubscriber = FALSE]
                 ELSE r
       IN [r1 EXCEPT !.info = [Touch(@) EXCEPT !.status = "stopped"],
                     !.lingers = @ \cup {LingerMs},
                     !.wanted = FALSE]

\* createSubscription: the quota check, the record, the subscriber with its
\* handlers, subscribe().  A topic the validation of subscribe() rejects makes
\* it throw before anything is started, and the catch block of
\* createSubscription deletes the record and the subscriber in the same task.
\* Subscription ids are random strings: each id of the model is given out
\* once.
CreateSubscription(s, topic, poll) ==
  /\ ~conn[s].created
  /\ IF Cardinality(GetActiveSubscriptions) >= MaxSubscriptions
     THEN Step(s, Begin(conn[s], "createRejected"))
     ELSE LET r == SubscribeTopic([Begin(conn[s], "create") EXCEPT
                                     !.trace.malformed = Malformed(topic),
                                     !.info = NewInfo, !.created = TRUE,
                                     !.hasSubscriber = TRUE, !.creating = TRUE,
                                     !.handlers = RegistryHandlers],
                                  topic, poll)
          IN Step(s, IF r.trace.settled = "InvalidTopic"
                     THEN SubscribeRejected(r, IdleAttempt, "InvalidTopic")
                     ELSE r)

\* The stop action of the tool.
StopCall(s) ==
  /\ conn[s].created
  /\ conn[s].stops < MaxStops
  /\ Step(s, StopSubscription([Begin(conn[s], "stop") EXCEPT !.stops = @ + 1]))

\* The timer armed by createSubscription fires.
AutoStopFire(s) ==
  /\ conn[s].autoStopIn = 0
  /\ LET r1 == [Begin(conn[s], "autoStop") EXCEPT !.autoStopIn = NoTimer]
     IN Step(s, IF r1.info.present THEN StopSubscription(r1) ELSE r1)

\* The timer armed by stopSubscription fires: the record is deleted.
LingerFire(s) ==
  /\ 0 \in conn[s].lingers
  /\ Step(s, [Begin(conn[s], "linger") EXCEPT !.lingers = @ \ {0},
                                             !.info = NoInfo])

\* The sweep passes over the records in status error.
SweepExpired_SkipsError(i) ==
  LET timeSinceActivity == IF i.hasActivity THEN i.idle ELSE i.age IN
  i.present /\ i.status # "error"
            /\ (i.age > SubscriptionTimeout
                \/ timeSinceActivity > SubscriptionTimeout)

\* cleanupExpiredSubscriptions picks the records created, or last active,
\* more than subscriptionTimeout ago.
SweepExpired(i) ==
  LET timeSinceActivity == IF i.hasActivity THEN i.idle ELSE i.age IN
  i.present /\ (i.age > SubscriptionTimeout
                \/ timeSinceActivity > SubscriptionTimeout)

\* cleanupExpiredSubscriptions: stopSubscription for every record picked.
CleanupExpiredSubscriptions(c, op) ==
  [s \in SubIds |->
     IF SweepExpired(c[s].info)
     THEN Norm(Drain(StopSubscription(Begin(c[s], op))))
     ELSE Quiet(c[s])]

\* The cleanup interval fires.
Sweep ==
  /\ sweepIn = 0
  /\ sweepIn' = CleanupIntervalMs
  /\ conn' = CleanupExpiredSubscriptions(conn, "sweep")
  /\ UNCHANGED <<pollVars, auxVars>>

\* A caller runs cleanupExpiredSubscriptions (a public method) between two
\* runs of the interval; without a record to pick the call changes nothing.
CleanupCall ==
  /\ \E s \in SubIds : SweepExpired(conn[s].info)
  /\ conn' = CleanupExpiredSubscriptions(conn, "cleanupCall")
  /\ UNCHANGED sweepIn
  /\ UNCHANGED <<pollVars, auxVars>>

\* destroy: the cleanup interval is cleared, every subscriber in the map is
\* unsubscribed, and both maps are emptied; the timers armed by
\* createSubscription and stopSubscription stay armed.
Destroy ==
  /\ sweepIn' = NoTimer
  /\ conn' = [s \in SubIds |->
        LET r == Begin(conn[s], "destroy")
            r1 == IF r.hasSubscriber THEN Unsubscribe(r) ELSE r
        IN IF ~conn[s].created THEN Quiet(conn[s])
           ELSE Norm(Drain([r1 EXCEPT !.info = NoInfo, !.hasSubscriber = FALSE]))]
  /\ UNCHANGED <<pollVars, auxVars>>

InitReg ==
  /\ now = StartNow
  /\ ticks = 0
  /\ upstream = [t \in Topics |-> <<>>]
  /\ nextMsgId = 1
  /\ states = [t \in Topics |-> NoObj]
  /\ objs = [i \in ObjIds |-> FreeObj]
  /\ calls = [p \in Pollers |-> IdleCall]
  /\ audit = [t \in Topics |-> NoAudit]
  /\ cleanupInterval = TRUE
  /\ conn = [s \in SubIds |-> NewConn]
  /\ sweepIn = CleanupIntervalMs
  /\ send = NewSend
  /\ dec = NoDec

\* The registry with one subscription, over unbounded time.
RegIds == {"s1"}

NextReg ==
  \/ \E s \in RegIds, topic \in SubTopics, poll \in BOOLEAN :
       CreateSubscription(s, topic, poll)
  \/ \E s \in RegIds : StopCall(s)
  \/ \E s \in RegIds : AutoStopFire(s)
  \/ \E s \in RegIds : LingerFire(s)
  \/ Sweep
  \/ CleanupCall
  \/ Destroy
  \/ \E s \in RegIds, a \in AttemptIds : FetchOk(s, a)
  \/ \E s \in RegIds, a \in AttemptIds : FetchFail(s, a)
  \/ \E s \in RegIds, a \in AttemptIds, kind \in RecordKinds : StreamRecord(s, a, kind)
  \/ \E s \in RegIds, a \in AttemptIds : StreamEnd(s, a)
  \/ \E s \in RegIds, a \in AttemptIds : StreamError(s, a)
  \/ \E s \in RegIds, a \in AttemptIds : AbortTimerFire(s, a)
  \/ \E s \in RegIds : \E tm \in conn[s].timers : ReconnectTimerFire(s, tm)
  \/ \E s \in RegIds : KeepaliveFire(s)
  \/ Tick(NextDeadline)

SpecReg == InitReg /\ [][NextReg]_vars

(***************************************************************************)
(* The registry with two subscriptions and a quota of one, over a bounded  *)
(* number of clock advances and of messages counted per subscription.     *)
(***************************************************************************)
QuotaTick(d) ==
  /\ ticks < MaxQuotaTicks
  /\ Elapse(d)
  /\ ticks' = ticks + 1
  /\ UNCHANGED <<now, upstream, nextMsgId, states, objs, calls, audit, cleanupInterval>>
  /\ UNCHANGED auxVars

NextQuota ==
  \/ \E s \in SubIds, topic \in SubTopics, poll \in BOOLEAN :
       CreateSubscription(s, topic, poll)
  \/ \E s \in SubIds : StopCall(s)
  \/ \E s \in SubIds : AutoStopFire(s)
  \/ \E s \in SubIds : LingerFire(s)
  \/ Sweep
  \/ Destroy
  \/ \E s \in SubIds, a \in AttemptIds : FetchOk(s, a)
  \/ \E s \in SubIds, a \in AttemptIds : FetchFail(s, a)
  \/ \E s \in SubIds, a \in AttemptIds, kind \in RecordKinds :
       conn[s].info.messageCount < MaxQuotaRecords /\ StreamRecord(s, a, kind)
  \/ \E s \in SubIds, a \in AttemptIds : StreamEnd(s, a)
  \/ \E s \in SubIds, a \in AttemptIds : StreamError(s, a)
  \/ \E s \in SubIds, a \in AttemptIds : AbortTimerFire(s, a)
  \/ \E s \in SubIds : \E tm \in conn[s].timers : ReconnectTimerFire(s, tm)
  \/ \E s \in SubIds : KeepaliveFire(s)
  \/ QuotaTick(NextDeadline)

SpecQuota == InitReg /\ [][NextQuota]_vars

(***************************************************************************)
(* Claims about the registry.                                              *)
(***************************************************************************)
\* C6: the N-th reconnect scheduled after a subscribe() gets the delay
\* RECONNECT_DELAY * N and N never exceeds MAX_RECONNECT_ATTEMPTS; a failure
\* after MAX_RECONNECT_ATTEMPTS reconnects schedules no further reconnect, is
\* reported through onError, and leaves the record (if still there) with
\* status error and an error message.
C6_ReconnectBackoff ==
  \A s \in SubIds :
    LET r == conn[s] IN
    /\ r.reconnectAttempts <= MAX_RECONNECT_ATTEMPTS
    /\ r.trace.scheduled
         => \E tm \in r.timers :
              tm.remaining = RECONNECT_DELAY * r.reconnectAttempts
    /\ r.trace.gaveUp
         => /\ ~r.trace.scheduled
            /\ Len(r.trace.cbs) > 0
            /\ r.trace.cbs[Len(r.trace.cbs)].name = "onError"
            /\ r.info.present
                 => r.info.status = "error" /\ r.info.errorMessage # "none"

\* The fifth reconnect attempt of a subscription has failed.
C6_Witness ==
  \E s \in SubIds :
    /\ conn[s].trace.gaveUp
    /\ conn[s].reconnectAttempts = MAX_RECONNECT_ATTEMPTS
    /\ conn[s].info.present
    /\ conn[s].info.status = "error"

\* C7: the number of records with status active or connecting never exceeds
\* maxSubscriptions.
C7_QuotaInvariant == Cardinality(GetActiveSubscriptions) <= MaxSubscriptions

\* C8: while a timer armed by stopSubscription has not run out, the record
\* is in the registry with status stopped.
C8_StoppedRecordLingers ==
  \A s \in SubIds :
    (\E l \in conn[s].lingers : l > 0)
      => GetSubscription(s).present /\ GetSubscription(s).status = "stopped"

\* C9: a record older than subscriptionTimeout has been stopped.
C9_StoppedByTimeout ==
  \A s \in SubIds :
    (conn[s].info.present /\ conn[s].info.age > SubscriptionTimeout)
      => conn[s].info.status = "stopped"

(***************************************************************************)
(* Claims about rate limiting.                                             *)
(***************************************************************************)
\* C10: every request on its way to the service (a poll fetch, a stream
\* open) was sent by a handler that had passed a rate-limit check.
C10_EveryRequestGated ==
  /\ \A p \in Pollers : calls[p].pc = "fetching" => calls[p].gates # {}
  /\ \A s \in SubIds : \A a \in AttemptIds :
        conn[s].attempts[a].phase = "fetching" => conn[s].attempts[a].gates # {}

(***************************************************************************)
(* The publish tool: processNtfyMessage up to the publish request.         *)
(***************************************************************************)
\* The observer's count of one check() call.
Observe(w, ok) ==
  IF ~ok THEN w
  ELSE IF w.left = 0 THEN [admitted |-> 1, left |-> RateWindowMs]
       ELSE [w EXCEPT !.admitted = @ + 1]

\* What one publish() call of the retry loop comes to: a response, an error
\* whose message names the network, a timeout or the connection, or another
\* error.
PublishReplies == {"ok", "retriable", "fatal"}

\* config.ntfy.maxRetries, as configured with NTFY_MAX_RETRIES=2.
MaxRetries == 2
MaxMessageSize == 4096
MessageSizes == {1, MaxMessageSize + 1}

\* The retry sleeps of one behaviour, all requests together.
MaxSleeps == 2

\* Math.min(100 * Math.pow(2, retries), 2000)
BackoffMs(retries) == Min(100 * 2^retries, 2000)

\* publish(): the request is sent, and given up when no response has come
\* after DEFAULT_REQUEST_TIMEOUT.
CallPublish(sd, id, topic, retries) ==
  [sd EXCEPT !.reqs[id] = [phase |-> "publishing", topic |-> topic,
                           retries |-> retries,
                           timer |-> DEFAULT_REQUEST_TIMEOUT]]

\* A publish() given up: "Operation timed out after 30000ms", rethrown as
\* "Error publishing to topic: ...", a message without any of the words the
\* retry loop looks for.
PublishTimeoutReply == "fatal"

\* The retry loop once publish() has settled: the result; after a retriable
\* error while retries < maxRetries the sleep before the next call; any
\* other error is thrown.
RetryLoop(sd, id, reply) ==
  LET q == sd.reqs[id]
      res == [NoSendResult EXCEPT !.id = id, !.topic = q.topic,
                                  !.outcome = "publishing",
                                  !.attempts = q.retries + 1]
  IN IF reply = "ok"
     THEN [sd EXCEPT !.reqs[id] = NoReq, !.last = res]
     ELSE IF reply # "retriable" \/ q.retries >= MaxRetries
          THEN [sd EXCEPT !.reqs[id] = NoReq,
                          !.last = [res EXCEPT !.error = "SERVICE_UNAVAILABLE"]]
          ELSE [sd EXCEPT !.reqs[id] = [q EXCEPT !.phase = "sleeping",
                                                 !.retries = @ + 1,
                                                 !.timer = BackoffMs(q.retries + 1)],
                          !.sleeps = @ + 1,
                          !.last = [res EXCEPT !.running = TRUE]]

\* The size check and the first publish() call of the retry loop, which
\* follow the rate limiting.
ValidateAndPublish(sd, id, res, size) ==
  IF size > MaxMessageSize
  THEN [sd EXCEPT !.last = [res EXCEPT !.outcome = "tooLarge",
                                       !.error = "VALIDATION_ERROR"]]
  ELSE [CallPublish(sd, id, res.topic, 0) EXCEPT
          !.last = [res EXCEPT !.outcome = "publishing", !.attempts = 1,
                               !.running = TRUE]]

\* The error of a failed check is caught and the request goes on.
OnRateLimited_Swallowed(sd, id, res, size, outcome) ==
  [ValidateAndPublish(sd, id, res, size) EXCEPT !.last.outcome = outcome]

\* The catch around the two checks: the error is thrown again.
OnRateLimited(sd, id, res, size, outcome) ==
  [sd EXCEPT !.last = [res EXCEPT !.outcome = outcome,
                                  !.error = "RATE_LIMITED"]]

\* processNtfyMessage up to its first await: validate the topic, check the
\* global limiter, then the limiter of the topic; a failed check throws; then
\* the size of the message is checked and publish() called.
ProcessNtfyMessage(sd, id, topic, size) ==
  IF ~ValidateTopicSync(topic)
  THEN [sd EXCEPT !.last = [NoSendResult EXCEPT !.id = id, !.topic = topic,
                                                !.outcome = "invalidTopic",
                                                !.error = "VALIDATION_ERROR"]]
  ELSE
    LET normalizedTopic == Trim(ToLowerCase(topic))
        prior == IF sd.windows[GlobalKey].left = 0 THEN {} ELSE sd.windowTopics
        g == Check(sd.globalRateLimiter, GlobalKey)
        cache1 == GetTopicRateLimiter(sd.topicRateLimiters, topic)
        i == CacheIndex(cache1, normalizedTopic)
        t == Check(cache1[i].limiter, topic)
        res == [NoSendResult EXCEPT !.id = id, !.topic = topic,
                                    !.priorTopics = prior,
                                    !.before =
                                      [k \in SendKeys |->
                                         IF k \in {GlobalKey, topic}
                                         THEN sd.windows[k] ELSE NoWindow]]
    IN IF ~g.ok
       THEN OnRateLimited(
              [sd EXCEPT !.windowTopics = prior \cup {normalizedTopic}],
              id, [res EXCEPT !.checks = <<[key |-> GlobalKey, ok |-> FALSE]>>],
              size, "globalLimited")
       ELSE
         LET sd1 == [sd EXCEPT
                       !.globalRateLimiter = g.limiter,
                       !.topicRateLimiters = [cache1 EXCEPT ![i].limiter = t.limiter],
                       !.windows = [@ EXCEPT ![GlobalKey] = Observe(@, TRUE),
                                             ![topic] = Observe(@, t.ok)],
                       !.windowTopics = prior \cup {normalizedTopic}]
             res1 == [res EXCEPT !.checks = <<[key |-> GlobalKey, ok |-> TRUE],
                                              [key |-> topic, ok |-> t.ok]>>]
         IN IF t.ok THEN ValidateAndPublish(sd1, id, res1, size)
            ELSE OnRateLimited(sd1, id, res1, size, "topicLimited")

\* A send request of the tool, up to its first await.
Send(id, topic, size) ==
  /\ send.reqs[id].phase = "idle"
  /\ \A other \in SendIds : send.reqs[other].phase = "idle" => ~IdBefore(other, id)
  /\ send' = ProcessNtfyMessage(send, id, topic, size)
  /\ UNCHANGED <<pollVars, subVars, dec>>

\* The response of a publish() call arrives with an ok status: the timer of
\* the request is cleared, and publish() awaits the body with no timer.
PublishResponse(id) ==
  /\ send.reqs[id].phase = "publishing"
  /\ send.reqs[id].timer # NoTimer
  /\ send' = [send EXCEPT
       !.reqs[id].timer = NoTimer,
       !.last = [NoSendResult EXCEPT
                   !.id = id, !.topic = send.reqs[id].topic,
                   !.outcome = "publishing",
                   !.attempts = send.reqs[id].retries + 1,
                   !.running = TRUE]]
  /\ UNCHANGED <<pollVars, subVars, dec>>

\* A publish() call settles: the body of an ok response has been read
\* (reply "ok"); or the request fails, the response has an error status, or
\* the body cannot be read.
PublishReply(id, reply) ==
  /\ send.reqs[id].phase = "publishing"
  /\ reply = "ok" => send.reqs[id].timer = NoTimer
  /\ send' = RetryLoop(send, id, reply)
  /\ UNCHANGED <<pollVars, subVars, dec>>

\* The timeout of a publish() call runs out before the response.
PublishTimeout(id) ==
  /\ send.reqs[id].phase = "publishing"
  /\ send.reqs[id].timer = 0
  /\ send' = RetryLoop(send, id, PublishTimeoutReply)
  /\ UNCHANGED <<pollVars, subVars, dec>>

\* The sleep before a retry is over: the next publish() call.
BackoffDone(id) ==
  /\ send.reqs[id].phase = "sleeping"
  /\ send.reqs[id].timer = 0
  /\ send' = [CallPublish(send, id, send.reqs[id].topic, send.reqs[id].retries)
                EXCEPT !.last = [NoSendResult EXCEPT
                                   !.id = id, !.topic = send.reqs[id].topic,
                                   !.outcome = "publishing",
                                   !.attempts = send.reqs[id].retries + 1,
                                   !.running = TRUE]]
  /\ UNCHANGED <<pollVars, subVars, dec>>

\* Time passes for the limiters: a window that has run out is over.
Expire(b, d, none) == IF b.left <= d THEN none ELSE [b EXCEPT !.left = @ - d]

ElapseLimiter(l, d) ==
  [l EXCEPT !.entries = [k \in SendKeys |-> Expire(@[k], d, NoBucket)]]

SendTickMs == RateWindowMs

\* The time to the next timer of a request, SendTickMs without one.
SendTimers == {send.reqs[id].timer : id \in SendIds} \ {NoTimer}
SendDeadline ==
  IF SendTimers = {} THEN SendTickMs
  ELSE CHOOSE t \in SendTimers : \A u \in SendTimers : t <= u

SendTick(d) ==
  /\ d > 0
  /\ \A t \in SendTimers : d <= t
  /\ send' = [send EXCEPT
       !.globalRateLimiter = ElapseLimiter(@, d),
       !.topicRateLimiters =
          [i \in 1..Len(@) |-> [@[i] EXCEPT !.limiter = ElapseLimiter(@, d)]],
       !.windows = [k \in SendKeys |-> Expire(@[k], d, NoWindow)],
       !.windowTopics = IF send.windows[GlobalKey].left <= d THEN {} ELSE @,
       !.reqs = [id \in SendIds |->
                   IF @[id].timer = NoTimer THEN @[id]
                   ELSE [@[id] EXCEPT !.timer = @ - d]],
       !.last = NoSendResult]
  /\ UNCHANGED <<pollVars, subVars, dec>>

InitSend == InitPoll

\* The requests of the tool, two under way at most, and the answers of the
\* service.  The service answers with a retriable error MaxSleeps times at
\* most, and to one request only: the one that has slept for every retry so
\* far.
NextSend ==
  \/ \E id \in SendIds, topic \in SendTopics, size \in MessageSizes :
       Send(id, topic, size)
  \/ \E id \in SendIds : PublishResponse(id)
  \/ \E id \in SendIds, reply \in PublishReplies :
       /\ (reply = "retriable" /\ send.reqs[id].retries < MaxRetries)
            => send.sleeps < MaxSleeps /\ send.sleeps = send.reqs[id].retries
       /\ PublishReply(id, reply)
  \/ \E id \in SendIds : PublishTimeout(id)
  \/ \E id \in SendIds : BackoffDone(id)
  \/ SendTick(SendDeadline)

SpecSend == InitSend /\ [][NextSend]_vars

(***************************************************************************)
(* Claims about rate limiting of the publish tool.                         *)
(***************************************************************************)
\* C11: a send request is not rejected by the global limiter when all the
\* earlier requests of the current window went to one other topic.
C11_OneTopicCannotExhaustGlobal ==
  ~ /\ send.last.outcome = "globalLimited"
    /\ Cardinality(send.last.priorTopics) = 1
    /\ Trim(ToLowerCase(send.last.topic)) \notin send.last.priorTopics

\* maxRequests of the limiter that serves a scope key.
MaxRequestsOf(key) == IF key = GlobalKey THEN RateMaxRequests ELSE PerTopicLimit

\* C12: a check(scope) call succeeds exactly when the scope has no running
\* window (none yet, or the last one has elapsed) or fewer than maxRequests
\* calls have succeeded in the running window; so exactly maxRequests calls
\* succeed per window and the next one is rejected.  The scopes are the
\* global one and every topic; the windows are those an observer of the
\* check() calls counts (Observe).
C12_FixedWindowLimit ==
  \A i \in 1..Len(send.last.checks) :
    LET c == send.last.checks[i]
        w == send.last.before[c.key]
    IN c.ok <=> (w.left = 0 \/ w.admitted < MaxRequestsOf(c.key))

(***************************************************************************)
(* NtfySubscriber.processJsonStream: the decoder of one stream.            *)
(* The wire is a sequence of bytes; "c3" "a9" are the two bytes of one     *)
(* character ("e'"), every other byte is a character of its own.           *)
(***************************************************************************)
MaxLines == 3

\* The lines a server may send, by kind: a message (fields id, time, event,
\* topic present), a message whose text holds a two-byte character, a message
\* followed by a carriage return, an object without the fields, a truncated
\* object, a line of whitespace and an empty line.
LineBytes(kind) ==
  CASE kind = "msg1"     -> <<"{", "1", "}">>
    [] kind = "msg2"     -> <<"{", "c3", "a9", "}">>
    [] kind = "crlf"     -> <<"{", "1", "}", "\r">>
    [] kind = "nofields" -> <<"{", "}">>
    [] kind = "garbage"  -> <<"{", "1">>
    [] kind = "blank"    -> <<" ">>
    [] OTHER             -> <<>>

LineKinds == {"msg1", "msg2", "crlf", "nofields", "garbage", "blank", "empty"}

\* The bytes of a stream of the given lines; every line ends with a newline,
\* except the last one when the stream is cut off (open).
RECURSIVE WireOf(_, _)
WireOf(kinds, open) ==
  IF kinds = <<>> THEN <<>>
  ELSE IF Len(kinds) = 1 /\ open THEN LineBytes(kinds[1])
  ELSE LineBytes(Head(kinds)) \o <<"\n">> \o WireOf(Tail(kinds), open)

\* TextDecoder.decode(value, {stream: true}): a lead byte at the end of a chunk
\* is kept for the next chunk; a malformed sequence decodes to U+FFFD ("?").
RECURSIVE Decode(_, _, _)
Decode(pending, bytes, chars) ==
  IF bytes = <<>> THEN [chars |-> chars, pending |-> pending]
  ELSE LET b == Head(bytes) IN
       IF pending = "c3"
       THEN IF b = "a9" THEN Decode("none", Tail(bytes), Append(chars, "e'"))
            ELSE Decode("none", bytes, Append(chars, "?"))
       ELSE IF b = "c3" THEN Decode("c3", Tail(bytes), chars)
       ELSE IF b = "a9" THEN Decode("none", Tail(bytes), Append(chars, "?"))
       ELSE Decode("none", Tail(bytes), Append(chars, b))

\* buffer.split('\n'): the pieces between the newlines, at least one piece.
RECURSIVE Split(_, _, _)
Split(str, piece, pieces) ==
  IF str = <<>> THEN Append(pieces, piece)
  ELSE IF Head(str) = "\n" THEN Split(Tail(str), <<>>, Append(pieces, piece))
  ELSE Split(Tail(str), Append(piece, Head(str)), pieces)

\* The buffer is dropped after every chunk.
Pop_Dropped(lines) == <<>>

\* lines.pop() || '': the piece after the last newline stays in the buffer.
Pop(lines) == lines[Len(lines)]

\* parseJsonMessageSync accepts every object, with or without the fields.
ParseJsonMessageSync_NoFieldCheck(data) ==
  LET text == Trim(data) IN
  IF text = <<"{", "1", "}">> THEN [ok |-> TRUE, id |-> 1]
  ELSE IF text = <<"{", "e'", "}">> THEN [ok |-> TRUE, id |-> 2]
  ELSE IF text = <<"{", "}">> THEN [ok |-> TRUE, id |-> 0]
  ELSE [ok |-> FALSE, id |-> 0]

\* parseJsonMessageSync: JSON.parse (which skips surrounding whitespace), then
\* the test for id, time, event and topic; every failure is a NtfyParseError.
ParseJsonMessageSync(data) ==
  LET text == Trim(data) IN
  IF data = <<>> THEN [ok |-> FALSE, id |-> 0]
  ELSE IF text = <<"{", "1", "}">> THEN [ok |-> TRUE, id |-> 1]
  ELSE IF text = <<"{", "e'", "}">> THEN [ok |-> TRUE, id |-> 2]
  ELSE [ok |-> FALSE, id |-> 0]

\* The loop over the complete lines: handleMessage or handleParseError for
\* every line that is not blank.
RECURSIVE DispatchLines(_, _)
DispatchLines(lines, out) ==
  IF lines = <<>> THEN out
  ELSE LET line == Head(lines)
           m == ParseJsonMessageSync(line)
       IN IF Trim(line) = <<>> THEN DispatchLines(Tail(lines), out)
          ELSE IF m.ok
          THEN DispatchLines(Tail(lines), Append(out, [cb |-> "onMessage", id |-> m.id]))
          ELSE DispatchLines(Tail(lines), Append(out, [cb |-> "onError", id |-> 0]))

\* One turn of the read loop with a chunk.
ProcessChunk(d, value) ==
  LET r == Decode(d.pending, value, <<>>)
      lines == Split(d.buffer \o r.chars, <<>>, <<>>)
  IN [d EXCEPT !.pending = r.pending,
               !.buffer = Pop(lines),
               !.out = DispatchLines(SubSeq(lines, 1, Len(lines) - 1), @)]

\* The decoder at the start of processJsonStream for a stream of the lines.
NewDec(kinds, open) ==
  [NoDec EXCEPT !.lines = kinds, !.open = open,
                !.wire = WireOf(kinds, open), !.rest = WireOf(kinds, open),
                !.connectionActive = TRUE]

\* reader.read() yields the next n bytes.
Read(n) ==
  /\ dec.connectionActive
  /\ n \in 1..Len(dec.rest)
  /\ LET d == ProcessChunk(dec, SubSeq(dec.rest, 1, n))
         cutNow == IF d.pending # "none" THEN "char"
                   ELSE IF d.buffer # <<>> THEN "line" ELSE "none"
     IN dec' = [d EXCEPT !.rest = SubSeq(dec.rest, n + 1, Len(dec.rest)),
                         !.cut = IF @ = "char" \/ cutNow = "none" THEN @ ELSE cutNow]
  /\ UNCHANGED <<pollVars, subVars, send>>

\* reader.read() reports the end of the stream.
ReadDone ==
  /\ dec.connectionActive
  /\ dec.rest = <<>>
  /\ dec' = [dec EXCEPT !.connectionActive = FALSE, !.closed = TRUE]
  /\ UNCHANGED <<pollVars, subVars, send>>

\* reader.read() rejects (abort or network error).
ReadFail ==
  /\ dec.connectionActive
  /\ dec' = [dec EXCEPT !.connectionActive = FALSE, !.thrown = TRUE]
  /\ UNCHANGED <<pollVars, subVars, send>>

RECURSIVE SeqsUpTo(_, _)
SeqsUpTo(S, n) ==
  IF n = 0 THEN {<<>>}
  ELSE LET shorter == SeqsUpTo(S, n - 1) IN
       shorter \cup {Append(q, x) : q \in shorter, x \in S}

InitDecode ==
  /\ now = StartNow
  /\ ticks = 0
  /\ upstream = [t \in Topics |-> <<>>]
  /\ nextMsgId = 1
  /\ states = [t \in Topics |-> NoObj]
  /\ objs = [i \in ObjIds |-> FreeObj]
  /\ calls = [p \in Pollers |-> IdleCall]
  /\ audit = [t \in Topics |-> NoAudit]
  /\ cleanupInterval = TRUE
  /\ conn = [s \in SubIds |-> NewConn]
  /\ sweepIn = NoTimer
  /\ send = NewSend
  /\ dec \in {NewDec(kinds, open) : kinds \in SeqsUpTo(LineKinds, MaxLines),
                                    open \in BOOLEAN}

\* No stream of MaxLines lines is longer.
MaxChunk == 5 * MaxLines

NextDecode ==
  \/ \E n \in 1..MaxChunk : Read(n)
  \/ ReadDone
  \/ ReadFail

SpecDecode == InitDecode /\ [][NextDecode]_vars

(***************************************************************************)
(* Claims about the decoder.                                               *)
(***************************************************************************)
\* The bytes the decoder has been given so far.
Consumed == SubSeq(dec.wire, 1, Len(dec.wire) - Len(dec.rest))

\* C13: however the stream has been cut into chunks, the records dispatched
\* so far and the partial line held back are those of the same bytes arriving
\* as one chunk; the records are in wire order.
C13_ChunkBoundaryIndependence ==
  LET whole == ProcessChunk(NewDec(dec.lines, dec.open), Consumed) IN
  /\ dec.out = whole.out
  /\ dec.buffer = whole.buffer
  /\ dec.pending = whole.pending

\* A chunk ended inside a two-byte character, and the message of that line
\* was dispatched after another record.
C13_Witness ==
  /\ dec.cut = "char"
  /\ Len(dec.out) >= 2
  /\ dec.out[Len(dec.out)] = [cb |-> "onMessage", id |-> 2]

\* What the claim expects of one complete line of the stream.
ExpectedOf(kind) ==
  CASE kind \in {"msg1", "crlf"}        -> <<[cb |-> "onMessage", id |-> 1]>>
    [] kind = "msg2"                    -> <<[cb |-> "onMessage", id |-> 2]>>
    [] kind \in {"nofields", "garbage"} -> <<[cb |-> "onError", id |-> 0]>>
    [] OTHER                            -> <<>>

RECURSIVE ExpectedOut(_, _)
ExpectedOut(kinds, n) ==
  IF n = 0 THEN <<>>
  ELSE ExpectedOut(kinds, n - 1) \o ExpectedOf(kinds[n])

\* The number of complete lines among the bytes given so far.
CompleteLines == Cardinality({i \in 1..Len(Consumed) : Consumed[i] = "\n"})

\* C14: every complete line that is not a message is reported through onError
\* and dropped, every message line before and after it is dispatched, and a
\* bad line neither ends the read loop nor throws.
C14_ParseFailureIsLocal ==
  /\ dec.out = ExpectedOut(dec.lines, CompleteLines)
  /\ (~dec.closed /\ ~dec.thrown) => dec.connectionActive

\* A bad line was reported and a later message was dispatched, the stream
\* still being read.
C14_Witness ==
  /\ dec.connectionActive
  /\ \E i, j \in 1..Len(dec.out) :
       /\ i < j
       /\ dec.out[i].cb = "onError"
       /\ dec.out[j].cb = "onMessage"

(***************************************************************************)
(* Claims about the registry's records after failed reconnects.            *)
(***************************************************************************)
\* C15 as stated: when a subscription that has not been stopped or swept runs
\* out of reconnect attempts, its record is in the registry with status error
\* and an error message; and no step removes the record of a subscription
\* whose attempts are used up while it is neither stopped nor swept.
C15_ExhaustedNeverRemoved ==
  [][\A s \in SubIds :
       LET r == conn[s]
           q == conn'[s]
       IN /\ (q.trace.gaveUp /\ q.hasSubscriber)
               => /\ q.info.present
                  /\ q.info.status = "error"
                  /\ q.info.errorMessage # "none"
          /\ (/\ r.info.present
              /\ r.hasSubscriber
              /\ r.reconnectAttempts = MAX_RECONNECT_ATTEMPTS)
               => q.info.present]_vars

\* C15 (amended): when a subscription that has not been stopped or swept
\* runs out of reconnect attempts, its record is in the registry with status
\* error and an error message; and no step but destroy() removes the record
\* of a subscription whose attempts are used up while it is neither stopped
\* nor swept.
C15_ExhaustedStaysQueryable ==
  [][\A s \in SubIds :
       LET r == conn[s]
           q == conn'[s]
       IN /\ (q.trace.gaveUp /\ q.hasSubscriber)
               => /\ q.info.present
                  /\ q.info.status = "error"
                  /\ q.info.errorMessage # "none"
          /\ (/\ r.info.present
              /\ r.hasSubscriber
              /\ r.reconnectAttempts = MAX_RECONNECT_ATTEMPTS
              /\ q.trace.op # "destroy")
               => q.info.present]_vars

\* The last reconnect attempt of a subscription that is not stopped has
\* failed, and its record is there.
C15_Witness ==
  \E s \in SubIds :
    /\ conn[s].trace.gaveUp
    /\ conn[s].hasSubscriber
    /\ conn[s].info.present
    /\ conn[s].info.status = "error"

(***************************************************************************)
(* subscribe(topic): the validation of the topic.  The repository holds    *)
(* two versions of NtfySubscriber.subscribe: services/ntfy/subscriber.ts   *)
(* tests the topic with isValidTopic, the other one with validateTopicSync.*)
(***************************************************************************)
\* An async function returns a promise of its result.
Async(value) == [kind |-> "promise", value |-> value]

\* JavaScript's truthiness: every object is truthy, a promise included.
Truthy(v) == IF v.kind = "promise" THEN TRUE ELSE v.value

\* isValidTopic: async, the test of validateTopicSync inside tryCatch.
IsValidTopic(topic) == Async(ValidateTopicSync(topic))

\* subscribe() of services/ntfy/subscriber.ts: if (!isValidTopic(topic)) throw.
SubscriberTsSubscribe(r, topic, poll) ==
  IF ~Truthy(IsValidTopic(topic)) THEN ThrowInvalidTopic(r)
  ELSE Subscribe(r, poll)

BeginSubscribe(r, topic) ==
  [Begin(r, "subscribe") EXCEPT !.trace.malformed = Malformed(topic)]

SubscriberTsSubscribeCall(s, topic, poll) ==
  /\ conn[s].file = "subscriber.ts"
  /\ conn[s].subscribes < MaxSubscribes
  /\ Step(s, SubscriberTsSubscribe(BeginSubscribe(conn[s], topic), topic, poll))

SubscribeTopicCall(s, topic, poll) ==
  /\ conn[s].file = "part_005"
  /\ conn[s].subscribes < MaxSubscribes
  /\ Step(s, SubscribeTopic(BeginSubscribe(conn[s], topic), topic, poll))

\* A subscriber of either class; fetch refuses a promise as URL, or is one
\* that takes it.
InitTopic ==
  /\ now = StartNow
  /\ ticks = 0
  /\ upstream = [t \in Topics |-> <<>>]
  /\ nextMsgId = 1
  /\ states = [t \in Topics |-> NoObj]
  /\ objs = [i \in ObjIds |-> FreeObj]
  /\ calls = [p \in Pollers |-> IdleCall]
  /\ audit = [t \in Topics |-> NoAudit]
  /\ cleanupInterval = TRUE
  /\ \E file \in SubscriberFiles, refuses \in BOOLEAN :
       /\ file = "part_005" => refuses
       /\ conn = [s \in SubIds |-> [NewConn EXCEPT !.file = file,
                                                !.fetchRefuses = refuses]]
  /\ sweepIn = NoTimer
  /\ send = NewSend
  /\ dec = NoDec

NextTopic ==
  \/ \E s \in Solo, topic \in SubTopics, poll \in BOOLEAN :
       SubscriberTsSubscribeCall(s, topic, poll)
  \/ \E s \in Solo, topic \in SubTopics, poll \in BOOLEAN :
       SubscribeTopicCall(s, topic, poll)
  \/ \E s \in Solo : UnsubscribeCall(s)
  \/ \E s \in Solo, a \in AttemptIds : FetchOk(s, a)
  \/ \E s \in Solo, a \in AttemptIds : FetchFail(s, a)
  \/ \E s \in Solo, a \in AttemptIds, kind \in RecordKinds : StreamRecord(s, a, kind)
  \/ \E s \in Solo, a \in AttemptIds : StreamEnd(s, a)
  \/ \E s \in Solo, a \in AttemptIds : StreamError(s, a)
  \/ \E s \in Solo, a \in AttemptIds : AbortTimerFire(s, a)
  \/ \E s \in Solo : \E tm \in conn[s].timers : ReconnectTimerFire(s, tm)
  \/ \E s \in Solo : KeepaliveFire(s)
  \/ Tick(NextDeadline)

SpecTopic == InitTopic /\ [][NextTopic]_vars

\* C16: subscribe() with a malformed topic rejects with InvalidTopic, starts
\* no request, schedules no reconnect and leaves the subscriber as it was.
C16_MalformedTopicRejected ==
  [][\A s \in SubIds :
       (conn'[s].trace.op = "subscribe" /\ conn'[s].trace.malformed)
         => /\ conn'[s].trace.settled = "InvalidTopic"
            /\ ~conn'[s].trace.started
            /\ ~conn'[s].trace.scheduled
            /\ SubscriberState(conn'[s]) = SubscriberState(conn[s])]_vars

\* C17: once the first request of a streaming subscription has been answered
\* and its stream is being read, subscribe() has resolved and the registry's
\* createSubscription has returned.
C17_SubscribeResolvesWhenEstablished ==
  \A s \in SubIds : \A a \in AttemptIds :
    LET at == conn[s].attempts[a] IN
    (at.phase = "streaming" /\ at.initial /\ ~at.poll) => ~conn[s].creating

(***************************************************************************)
(* Claims about the first poll of a topic.                                 *)
(***************************************************************************)
\* C18: a poll that finds no stored state sends its request without a since
\* cursor, and returns every message the service delivers: the local filter
\* drops none of them.
C18_FirstPollUnfiltered ==
  \A p \in Pollers :
    LET c == calls[p] IN
    (c.pc # "idle" /\ ~c.hadState)
      => /\ c.since.kind = "none"
         /\ c.pc = "responded"
              => NewMessages(objs[c.obj], c.response) = c.response

\* C19: a poll with resetState, whatever polls went before, sends the request
\* and works on the state of a first poll at the same clock value: no stored
\* state is found, the state is a new one, and since is computed from it.
C19_ResetThenPollIsFirstPoll ==
  [][\A p \in Pollers :
       (calls[p].pc = "idle" /\ calls'[p].pc = "fetching" /\ calls'[p].reset)
         => /\ ~calls'[p].hadState
            /\ objs'[calls'[p].obj] = NewPollState
            /\ calls'[p].since = SinceOf(NewPollState)
            /\ calls'[p].totalBefore = 0
            /\ states'[calls'[p].topic] = NoObj]_vars

\* A poll with resetState is under way on a topic that had a stored state
\* with a message cursor.
C19_Witness ==
  \E p \in Pollers :
    /\ calls[p].pc = "fetching"
    /\ calls[p].reset
    /\ calls[p].dropped
    /\ audit[calls[p].topic].last.totalAfter > 0

(***************************************************************************)
(* Two calls of the poll tool may overlap: each awaits its fetch.  The     *)
(* calls use the default limit, the clock advances in steps of 500 ms,     *)
(* MaxPairTicks times at most, and MaxPairPublished messages are published.*)
(* A call may fail at any point of its fetch.                              *)
(***************************************************************************)
MaxPairTicks == 2
MaxPairPublished == 1

NextPollPair ==
  \/ \E p \in Pollers, t \in Topics, r \in BOOLEAN : PollStart(p, t, r, 0)
  \/ \E p \in Pollers : ServerRespond(p)
  \/ \E p \in Pollers : PollFail(p)
  \/ \E p \in Pollers : PollFinish(p)
  \/ (nextMsgId <= MaxPairPublished /\ \E t \in Topics : Publish(t))
  \/ (ticks < MaxPairTicks /\ PollTick(500))
  \/ DestroyPollState

SpecPollPair == InitPoll /\ [][NextPollPair]_vars

\* C20: while a topic has a stored state (no reset and no expiry in between),
\* the lastPollTime and the totalMessagesSeen stored for it never decrease.
C20_StoredStateMonotonic ==
  [][\A t \in Topics :
       (states[t] # NoObj /\ states'[t] # NoObj)
         => /\ objs'[states'[t]].lastPollTime >= objs[states[t]].lastPollTime
            /\ objs'[states'[t]].totalMessagesSeen
                 >= objs[states[t]].totalMessagesSeen]_vars

(***************************************************************************)
(* The registry with its timers served: the event loop runs every timer    *)
(* that is due, and time goes on.  The first subscription is created at    *)
(* the start of a cleanup interval or SweepPhaseMs before its end; a       *)
(* subscription is stopped by the tool at most once and its streams carry  *)
(* at most one message.  destroy() may be called at any time: it clears    *)
(* the interval, and no sweep runs from then on.                           *)
(***************************************************************************)
SweepPhaseMs == 20000

InitSweep ==
  /\ now = StartNow
  /\ ticks = 0
  /\ upstream = [t \in Topics |-> <<>>]
  /\ nextMsgId = 1
  /\ states = [t \in Topics |-> NoObj]
  /\ objs = [i \in ObjIds |-> FreeObj]
  /\ calls = [p \in Pollers |-> IdleCall]
  /\ audit = [t \in Topics |-> NoAudit]
  /\ cleanupInterval = TRUE
  /\ conn = [s \in SubIds |-> NewConn]
  /\ sweepIn \in {CleanupIntervalMs, SweepPhaseMs}
  /\ send = NewSend
  /\ dec = NoDec

SweepRecordKinds == {"message"}

TimedReg ==
  \/ Tick(NextDeadline)
  \/ Sweep
  \/ \E s \in RegIds : AutoStopFire(s)
  \/ \E s \in RegIds : LingerFire(s)
  \/ \E s \in RegIds : KeepaliveFire(s)
  \/ \E s \in RegIds, a \in AttemptIds : AbortTimerFire(s, a)
  \/ \E s \in RegIds : \E tm \in conn[s].timers : ReconnectTimerFire(s, tm)

NextSweep ==
  \/ TimedReg
  \/ \E s \in RegIds, topic \in SubTopics, poll \in BOOLEAN :
       CreateSubscription(s, topic, poll)
  \/ \E s \in RegIds : conn[s].stops < 1 /\ StopCall(s)
  \/ CleanupCall
  \/ Destroy
  \/ \E s \in RegIds, a \in AttemptIds : FetchOk(s, a)
  \/ \E s \in RegIds, a \in AttemptIds : FetchFail(s, a)
  \/ \E s \in RegIds, a \in AttemptIds, kind \in SweepRecordKinds :
       conn[s].info.messageCount < 1 /\ StreamRecord(s, a, kind)
  \/ \E s \in RegIds, a \in AttemptIds : StreamEnd(s, a)
  \/ \E s \in RegIds, a \in AttemptIds : StreamError(s, a)

SpecSweep == InitSweep /\ [][NextSweep]_vars /\ WF_vars(TimedReg)

\* The record is older, or idle for longer, than the subscription timeout.
Overdue(i) ==
  /\ i.present
  /\ \/ i.age > SubscriptionTimeout
     \/ i.hasActivity /\ i.idle > SubscriptionTimeout

\* C21: a run of the sweep stops every record that is older or idle for
\* longer than the subscription timeout, whatever its status, and arms its
\* deletion; and every record of the registry is deleted in the end.
C21_SweepRemovesEveryRecord ==
  /\ [][(sweepIn = 0 /\ sweepIn' = CleanupIntervalMs)
          => \A s \in SubIds :
               Overdue(conn[s].info)
                 => /\ conn'[s].info.status = "stopped"
                    /\ conn'[s].lingers # {}
                    /\ ~conn'[s].hasSubscriber]_vars
  /\ \A s \in RegIds : conn[s].info.present ~> ~conn[s].info.present

\* The sweep has just stopped a record that was in status error.
C21_Witness ==
  \E s \in SubIds :
    /\ conn[s].trace.op = "sweep"
    /\ conn[s].info.status = "stopped"
    /\ conn[s].info.errorMessage # "none"
    /\ sweepIn = CleanupIntervalMs

(***************************************************************************)
(* The publish tool after many topics have been used: the cache of topic   *)
(* limiters is full, or nearly so, all windows having elapsed.             *)
(***************************************************************************)
FilledCache(n) ==
  [i \in 1..n |-> [topic |-> EarlierTopic(i),
                   limiter |-> NewRateLimiter(RateWindowMs, PerTopicLimit)]]

\* How many entries short of full the cache may be at the start.
MaxCacheRoom == 2

InitCache ==
  /\ now = StartNow
  /\ ticks = 0
  /\ upstream = [t \in Topics |-> <<>>]
  /\ nextMsgId = 1
  /\ states = [t \in Topics |-> NoObj]
  /\ objs = [i \in ObjIds |-> FreeObj]
  /\ calls = [p \in Pollers |-> IdleCall]
  /\ audit = [t \in Topics |-> NoAudit]
  /\ cleanupInterval = TRUE
  /\ conn = [s \in SubIds |-> NewConn]
  /\ sweepIn = NoTimer
  /\ \E room \in 0..MaxCacheRoom :
       send = [NewSend EXCEPT
                 !.topicRateLimiters = FilledCache(MAX_CACHED_TOPIC_LIMITERS - room)]
  /\ dec = NoDec

\* The requests of the tool, and the clock in steps of a whole window.
NextCache ==
  \/ \E topic \in SendTopics : Send("A", topic, 1)
  \/ PublishResponse("A")
  \/ PublishReply("A", "ok")
  \/ SendTick(RateWindowMs)

SpecCache == InitCache /\ [][NextCache]_vars

\* The same with requests for the oldest topic of the cache as well, and the
\* clock in steps of half a window: the window of a topic's limiter may be
\* running when a request for another topic evicts it.
EvictTopics == {<<"a">>, <<"b">>, EarlierTopic(1)}

NextEvict ==
  \/ \E topic \in EvictTopics : Send("A", topic, 1)
  \/ PublishResponse("A")
  \/ PublishReply("A", "ok")
  \/ SendTick(RateWindowMs \div 2)

SpecEvict == InitCache /\ [][NextEvict]_vars

CachedTopics(cache) == [i \in 1..Len(cache) |-> cache[i].topic]

\* C22: the cache never holds more than MAX_CACHED_TOPIC_LIMITERS entries, no
\* topic twice, and a request that changes the topics of a full cache drops
\* the oldest entry and appends the new one.
C22_TopicCacheBounded ==
  [][LET old == CachedTopics(send.topicRateLimiters)
         new == CachedTopics(send'.topicRateLimiters)
     IN /\ Len(new) <= MAX_CACHED_TOPIC_LIMITERS
        /\ Cardinality({new[i] : i \in 1..Len(new)}) = Len(new)
        /\ (Len(old) = MAX_CACHED_TOPIC_LIMITERS /\ new # old)
             => /\ Len(new) = MAX_CACHED_TOPIC_LIMITERS
                /\ SubSeq(new, 1, Len(new) - 1) = Tail(old)
                /\ new[Len(new)] = Trim(ToLowerCase(send'.last.topic))]_vars

\* A request for a new topic found the cache full: the oldest entry is gone.
C22_Witness ==
  /\ Len(send.topicRateLimiters) = MAX_CACHED_TOPIC_LIMITERS
  /\ send.topicRateLimiters[1].topic # EarlierTopic(1)
  /\ send.last.outcome = "publishing"

(***************************************************************************)
(* Claims about the state store of the poll tool.                          *)
(***************************************************************************)
\* The entry of the topic is older than the TTL.
TooOld(m, t) == m[t] # NoObj /\ now - objs[m[t]].updatedAt > PollStateTtl

\* C23: a poll never works on a stored state older than the TTL, and an entry
\* it finds too old is gone from the store; the state a poll stores carries
\* the current time as updatedAt; a call of the cleanup leaves exactly the
\* entries that are not too old, and so does the passing of time while the
\* interval is armed, for the time of its last sweep (nothing but destroy()
\* removes an entry otherwise).
C23_PollStateTtl ==
  [][/\ \A p \in Pollers :
          (calls[p].pc = "idle" /\ calls'[p].pc = "fetching")
            => LET t == calls'[p].topic IN
               /\ calls'[p].hadState
                    => /\ ~TooOld(states, t)
                       /\ calls'[p].obj = states[t]
               /\ TooOld(states, t) => states'[t] = NoObj
     /\ \A p \in Pollers :
          Returns(p)
            => LET t == calls[p].topic IN
               /\ now' = now
               /\ states'[t] # NoObj
               /\ objs'[states'[t]].updatedAt = now
     /\ \A p \in Pollers :
          (Throws(p) /\ now' = now) => states' = states
     /\ (calls' = calls /\ now' = now /\ states' # states)
          => \/ \A t \in Topics :
                  states'[t] = IF TooOld(states, t) THEN NoObj ELSE states[t]
             \/ /\ ~cleanupInterval'
                /\ \A t \in Topics : states'[t] = NoObj
     /\ now' # now
          => LET at == now' - ((now' - StartNow) % PollCleanupIntervalMs) IN
             \A t \in Topics :
               states'[t] = IF /\ states[t] # NoObj
                               /\ cleanupInterval
                               /\ at > now
                               /\ at - objs[states[t]].updatedAt > PollStateTtl
                            THEN NoObj ELSE states[t]]_vars

\* A poll found the stored state of its topic older than the TTL.
C23_Witness ==
  \E p \in Pollers :
    /\ calls[p].pc = "fetching"
    /\ calls[p].dropped
    /\ ~calls[p].reset
    /\ ~calls[p].hadState

\* C24: a request rejected by the global or the per-topic rate limiter fails
\* with RATE_LIMITED and has made no publish attempt: it has ended, and no
\* publish() call or retry of it is under way.
C24_RateLimitedNeverPublishes ==
  send.last.outcome \in {"globalLimited", "topicLimited"}
    => /\ send.last.error = "RATE_LIMITED"
       /\ send.last.attempts = 0
       /\ ~send.last.running
       /\ send.reqs[send.last.id].phase = "idle"

\* A request is rejected by the limiter of its topic while another one is
\* under way.
C24_Witness ==
  /\ send.last.outcome = "topicLimited"
  /\ send.last.attempts = 0
  /\ send.last.error = "RATE_LIMITED"
  /\ send.reqs[send.last.id].phase = "idle"
  /\ \E id \in SendIds : send.reqs[id].phase # "idle"

\* C25: whenever a connection of a non-poll subscription is streaming (the
\* first one of a subscribe() call or one made by a reconnect), the periodic
\* keepalive check is running.
C25_KeepaliveCoversEveryStream ==
  \A s \in SubIds : \A a \in AttemptIds :
    LET at == conn[s].attempts[a] IN
    (at.phase = "streaming" /\ ~at.poll /\ ~at.aborted)
      => conn[s].keepaliveIn # NoTimer

(***************************************************************************)
(* A subscriber whose handlers may call unsubscribe().                     *)
(***************************************************************************)
\* A chunk with one complete line arrives and the handler it is dispatched to
\* calls unsubscribe().  No read is pending at that moment: the loop of
\* processJsonStream finds connectionActive cleared and returns, and
\* startSubscription resolves.
StreamRecordUnsubscribe(s, a, kind) ==
  /\ conn[s].attempts[a].phase = "streaming"
  /\ LET r1 == Dispatch(Begin(conn[s], "recordUnsubscribe"), kind)
         r2 == [Unsubscribe(r1) EXCEPT !.wanted = FALSE]
     IN Step(s, Settled(r2, a, TRUE, "none"))

NextCancel ==
  \/ NextSub
  \/ \E s \in Solo, a \in AttemptIds, kind \in RecordKinds :
       StreamRecordUnsubscribe(s, a, kind)

SpecCancel == InitSub /\ [][NextCancel]_vars

\* C26: the step in which a handler called unsubscribe() while its record was
\* being dispatched raises no exception and schedules no reconnect, and it
\* leaves the subscriber idle: not connected, no controller held, and no
\* keepalive check running.
C26_UnsubscribeInsideHandler ==
  \A s \in SubIds :
    conn[s].trace.op = "recordUnsubscribe"
      => /\ conn[s].trace.settled # "rejected"
         /\ ~conn[s].trace.scheduled
         /\ ~conn[s].connectionActive
         /\ conn[s].abortController = NoPtr
         /\ conn[s].keepaliveIn = NoTimer

\* The requests of a subscriber that end in the step.
Freed(s) ==
  {a \in AttemptIds : /\ conn[s].attempts[a].phase # "free"
                      /\ conn'[s].attempts[a].phase = "free"}

\* C27: no reconnect timer is ever armed for a subscription made with
\* poll = true; and a step that ends the request of such a subscription (and
\* no other request) schedules no reconnect, starts no keepalive check, and,
\* unless the stream simply came to its end, rejects the subscribe() call.
C27_PollNeverReconnects ==
  [][\A s \in SubIds :
       /\ \A tm \in conn'[s].timers : ~tm.poll
       /\ (/\ Freed(s) # {}
           /\ \A a \in Freed(s) : conn[s].attempts[a].poll /\ conn[s].attempts[a].initial)
            => /\ ~conn'[s].trace.scheduled
               /\ conn'[s].keepaliveIn \in {NoTimer, conn[s].keepaliveIn}
               /\ conn'[s].trace.op \notin {"streamEnd", "record"}
                    => conn'[s].trace.settled = "rejected"]_vars

\* The request of a first subscribe() call with poll = true has failed and
\* the call was rejected: no reconnect is pending, no keepalive check runs.
C27_Witness ==
  \E s \in SubIds :
    /\ conn[s].trace.op = "fetchFail"
    /\ conn[s].trace.settled = "rejected"
    /\ conn[s].subscribes = 1
    /\ conn[s].reconnectAttempts = 0
    /\ conn[s].timers = {}
    /\ conn[s].keepaliveIn = NoTimer

(***************************************************************************)
(* Claims about polling under a limit.                                     *)
(***************************************************************************)
\* The ids of the messages that are new to the cursor the poll of p started
\* from: with an id cursor those after that id in the service's cache, with
\* a time cursor those published since the previous poll.
PendingFor(p) ==
  LET c == calls[p] IN
  IF c.since.kind = "id"
  THEN Ids(SelectSeq(upstream[c.topic], LAMBDA m : m.id > c.since.id))
  ELSE audit[c.topic].pending

\* The poll of p ends a run of sequential polls on a stored state in which
\* nothing was published while a request was in flight, and (for a time
\* cursor) no earlier poll left messages behind.
SequentialPoll(p) ==
  LET c == calls[p] IN
  /\ c.hadState
  /\ IF c.since.kind = "id" THEN audit[c.topic].taint < 2
                            ELSE audit[c.topic].taint = 0

\* C28: a sequential poll that finds more than `limit` new messages pending
\* returns the first `limit` of them, in upstream order, and leaves the cursor
\* at the last message it returned (so the next poll goes on from there).
C28_LimitedPollLosesNothing ==
  [][\A p \in Pollers :
       (/\ Returns(p)
        /\ SequentialPoll(p)
        /\ Len(PendingFor(p)) > EffectiveLimit(calls[p].limit))
         => LET t == calls[p].topic
                lim == EffectiveLimit(calls[p].limit)
            IN /\ audit'[t].last.returned = Take(PendingFor(p), lim)
               /\ objs'[states'[t]].lastMessageId = PendingFor(p)[lim]]_vars

\* C29: the timer of the connect request never ends an open stream: a step of
\* that timer leaves every connection that was streaming (and not aborted by
\* the caller) streaming.
C29_RequestTimeoutSparesOpenStream ==
  [][\A s \in SubIds : \A a \in AttemptIds :
       (/\ conn[s].attempts[a].phase = "streaming"
        /\ ~conn[s].attempts[a].aborted
        /\ conn'[s].trace.op = "abortTimer")
         => conn'[s].attempts[a].phase = "streaming"]_vars

\* The fields of a record that the handlers of its connection write.
HandlerFields(i) ==
  [status |-> i.status, messageCount |-> i.messageCount,
   errorMessage |-> i.errorMessage]

\* C30: from the state in which a record is stopped, no step changes its
\* status, messageCount or errorMessage as long as the record is there.
C30_StoppedIsStable ==
  [][\A s \in SubIds :
       (/\ conn[s].info.present
        /\ conn[s].info.status = "stopped"
        /\ conn'[s].info.present)
         => HandlerFields(conn'[s].info) = HandlerFields(conn[s].info)]_vars

(***************************************************************************)
(* Claims about overlapping and failed polls.                              *)
(***************************************************************************)
\* C31: with polls of one topic overlapping at their fetch, every upstream
\* message is counted once: the totalMessagesSeen stored for a topic never
\* exceeds the number of messages published to it.
C31_ConcurrentPollsCountOnce ==
  \A t \in Topics :
    states[t] # NoObj
      => objs[states[t]].totalMessagesSeen <= Len(upstream[t])

\* What the store holds for a topic: nothing, or the fields of its state.
StoredState(m, h, t) == IF m[t] = NoObj THEN <<>> ELSE <<h[m[t]]>>

\* C32 as stated: when the fetch of a poll without resetState fails, the store
\* holds for every topic exactly what it held before the call: the failing
\* step changes nothing (a sweep of the store that runs in the same span of
\* time apart), and the call had removed nothing at its start.
C32_FailedPollLeavesStore ==
  [][\A p \in Pollers :
       (Throws(p) /\ ~calls[p].reset)
         => /\ ~calls[p].dropped
            /\ \A t \in Topics :
                 \/ StoredState(states', objs', t) = StoredState(states, objs, t)
                 \/ /\ states[t] # NoObj
                    /\ states'[t] = NoObj
                    /\ now' - objs[states[t]].updatedAt > PollStateTtl]_vars

\* C32 (amended): a poll without resetState whose fetch fails leaves the store as it
\* was: the start of the call changes nothing but the removal of an entry
\* older than the TTL (which no reader could get any more), and the failure
\* (an error, or the timeout of the request) changes nothing at all: if an
\* entry goes while the timeout is awaited, it is one older than the TTL that
\* the store's sweep removes; a topic without a state has none afterwards.
C32_FailedPollKeepsCursor ==
  [][\A p \in Pollers :
       /\ (calls[p].pc = "idle" /\ calls'[p].pc = "fetching" /\ ~calls'[p].reset)
            => LET t == calls'[p].topic IN
               StoredState(states', objs', t) =
                 IF TooOld(states, t) THEN <<>> ELSE StoredState(states, objs, t)
       /\ Throws(p)
            => \A t \in Topics :
                 \/ StoredState(states', objs', t) = StoredState(states, objs, t)
                 \/ /\ states[t] # NoObj
                    /\ states'[t] = NoObj
                    /\ now' - objs[states[t]].updatedAt > PollStateTtl]_vars

\* A poll has failed on a topic whose stored cursor is the id of the message
\* an earlier poll returned, and some time after that poll.
C32_Witness ==
  \E t \in Topics :
    /\ \A p \in Pollers : calls[p].pc = "idle"
    /\ audit[t].taint = 2
    /\ states[t] # NoObj
    /\ objs[states[t]].lastMessageId # NoId
    /\ objs[states[t]].lastPollTime < now

(***************************************************************************)
(* Claims about the connections of one subscriber.                         *)
(***************************************************************************)
\* C33: a subscriber never has more than one request in progress (a
\* connection attempt awaiting its response, or an open stream).
C33_AtMostOneConnection ==
  \A s \in SubIds : Cardinality(LiveAttempts(conn[s])) <= 1

\* C34: after a subscribe() call on a subscriber with an open stream, the
\* subscriber holds the controller and the cleanup function of the request
\* the call has started, and the timer of that request is armed.
C34_ResubscribeKeepsController ==
  [][\A s \in SubIds :
       (/\ conn'[s].trace.op = "subscribe"
        /\ \E a \in AttemptIds : /\ conn[s].attempts[a].phase = "streaming"
                                 /\ ~conn[s].attempts[a].aborted)
         => \E b \in AttemptIds :
              /\ conn'[s].attempts[b].phase = "fetching"
              /\ conn'[s].abortController = b
              /\ conn'[s].cleanupFn = b
              /\ conn'[s].attempts[b].abortIn # NoTimer]_vars

(***************************************************************************)
(* Claims about the two maps of the registry.                              *)
(***************************************************************************)
\* C35: every id with a subscriber has a record, and every record whose
\* status is active or connecting has a subscriber.
C35_RegistryConsistent ==
  \A s \in SubIds :
    /\ conn[s].hasSubscriber => conn[s].info.present
    /\ (conn[s].info.present /\ conn[s].info.status \in {"active", "connecting"})
         => conn[s].hasSubscriber

\* C36: in the state in which createSubscription has been rejected (by the
\* quota check, or because its subscribe() call was rejected: for a topic
\* that is not valid, at once, or for a request that failed), the registry
\* holds neither a record nor a subscriber for the id, and the subscriber has
\* no request in progress, no open connection, no reconnect timer and no
\* keepalive check.
C36_FailedCreateLeavesNothing ==
  \A s \in SubIds :
    /\ (conn[s].trace.op = "create" /\ conn[s].trace.malformed)
         => conn[s].trace.settled = "rejected"
    /\ (conn[s].trace.settled = "rejected" \/ conn[s].trace.op = "createRejected")
      => /\ ~conn[s].info.present
         /\ ~conn[s].hasSubscriber
         /\ LiveAttempts(conn[s]) = {}
         /\ ~conn[s].connectionActive
         /\ conn[s].timers = {}
         /\ conn[s].keepaliveIn = NoTimer

\* The request of a createSubscription call in poll mode has failed and the
\* call was rejected.
C36_Witness ==
  \E s \in SubIds :
    /\ conn[s].trace.op = "fetchFail"
    /\ conn[s].trace.settled = "rejected"
    /\ conn[s].created
    /\ ~conn[s].info.present

(***************************************************************************)
(* Claims about the timers of one subscriber.                              *)
(***************************************************************************)
\* The subscriber is in its terminal idle state: no request in progress, not
\* connected, no reconnect pending.
TerminalIdle(r) ==
  /\ LiveAttempts(r) = {}
  /\ ~r.connectionActive
  /\ r.timers = {}

\* C37: while a subscriber is in terminal idle, no keepalive check is
\* scheduled.
C37_KeepaliveOnlyWhileLive ==
  \A s \in SubIds : TerminalIdle(conn[s]) => conn[s].keepaliveIn = NoTimer

\* C38: the reconnect counter of a subscriber stays within
\* 0..MAX_RECONNECT_ATTEMPTS, and no step but a subscribe() call lowers it.
C38_ReconnectCounterBounded ==
  [][\A s \in SubIds :
       /\ conn[s].reconnectAttempts \in 0..MAX_RECONNECT_ATTEMPTS
       /\ conn'[s].reconnectAttempts \in 0..MAX_RECONNECT_ATTEMPTS
       /\ conn'[s].reconnectAttempts < conn[s].reconnectAttempts
            => conn'[s].trace.op = "subscribe"]_vars

\* A connection made by a reconnect has failed with the counter at its
\* maximum, and the subscriber has given up.
C38_Witness ==
  \E s \in SubIds :
    /\ conn[s].reconnectAttempts = MAX_RECONNECT_ATTEMPTS
    /\ conn[s].trace.gaveUp
    /\ conn[s].subscribes = 1

====
